---- MODULE Spec2Model ----
(***************************************************************************)
(* Model of the financial-statement extraction and ratio engine of the    *)
(* finbizinfo backend (src/be).  Every operation of the engine is a pure   *)
(* function of its arguments, so the state of the model is the invocation  *)
(* being made: the function called (fn), its arguments (args), what it      *)
(* returned (result) and whether it has returned (pc).  The initial state   *)
(* draws the function and its arguments from small sets; one action per     *)
(* function applies the function, translated from its source.               *)
(*                                                                         *)
(* Numbers.  A Python value that the engine handles is modelled as a       *)
(* record [k, n, d]: k = "num" is the exact rational n/d (d > 0, lowest    *)
(* terms), k = "none" is None, k = "inf" is float('inf'), k = "absent" is  *)
(* a dictionary key that was never set and k = "raise" is an exception     *)
(* that leaves the function.  Python floats are modelled by the exact      *)
(* rational they approximate; round(v, k) is round-half-even on it.        *)
(*                                                                         *)
(* Text.  A Python str is modelled as the sequence of its characters,      *)
(* each a one-character string; the regular expressions of the source are  *)
(* translated into index arithmetic on that sequence.                      *)
(***************************************************************************)
EXTENDS Integers, Sequences, FiniteSets, TLC

VARIABLES pc, fn, args, result

vars == <<pc, fn, args, result>>

(* ------------------------------ values -------------------------------- *)

None == [k |-> "none", n |-> 0, d |-> 1]

Absent == [k |-> "absent", n |-> 0, d |-> 1]

Inf == [k |-> "inf", n |-> 0, d |-> 1]

Raised == [k |-> "raise", n |-> 0, d |-> 1]

Abs(x) == IF x < 0 THEN -x ELSE x

RECURSIVE GCD(_, _)
GCD(a, b) == IF b = 0 THEN a ELSE GCD(b, a % b)

(* the rational p/q (q # 0) in lowest terms with a positive denominator *)
Rat(p, q) ==
    LET g == GCD(Abs(p), Abs(q))
        s == IF q < 0 THEN -1 ELSE 1
    IN  [k |-> "num", n |-> s * (p \div g), d |-> Abs(q) \div g]

Int2Num(i) == [k |-> "num", n |-> i, d |-> 1]

IsNum(x) == x.k = "num"

IsNone(x) == x.k = "none"

IsZero(x) == x.k = "num" /\ x.n = 0

(* Python truthiness of an optional number: None and 0 are falsy *)
Truthy(x) == x.k = "inf" \/ (x.k = "num" /\ x.n # 0)

(* Python's  x or y *)
PyOr(x, y) == IF Truthy(x) THEN x ELSE y

Add(x, y) == Rat(x.n * y.d + y.n * x.d, x.d * y.d)

Sub(x, y) == Rat(x.n * y.d - y.n * x.d, x.d * y.d)

Mul(x, y) == Rat(x.n * y.n, x.d * y.d)

(* x / y for y # 0 *)
Quot(x, y) == Rat(x.n * y.d, x.d * y.n)

Less(x, y) == x.n * y.d < y.n * x.d

RECURSIVE Pow10(_)
Pow10(e) == IF e = 0 THEN 1 ELSE 10 * Pow10(e - 1)

(* the quotient and remainder of (q * d + r) * 10^k by d, one decimal digit
   at a time *)
RECURSIVE LongDiv(_, _, _, _)
LongDiv(q, r, d, k) ==
    IF k = 0 THEN <<q, r>>
    ELSE LongDiv(10 * q + (10 * r) \div d, (10 * r) % d, d, k - 1)

Min(S) == CHOOSE x \in S : \A y \in S : x <= y

Max(S) == CHOOSE x \in S : \A y \in S : x >= y

(* int.bit_length() *)
BitLength(q) == Cardinality({k \in 0..30 : 2^k <= q})

IsPowerOf2(d) == \E k \in 0..30 : d = 2^k

(* a * b mod d for a < d, the product taken one digit of b at a time so
   that no step leaves the 32-bit integers *)
RECURSIVE MulMod(_, _, _)
MulMod(a, b, d) ==
    LET base == IF 2147483647 \div d < 2 THEN 2 ELSE 2147483647 \div d
    IN  IF b = 0 THEN 0
        ELSE (((MulMod(a, b \div base, d) * base) % d) + ((a * (b % base)) % d)) % d

(* 2^e mod d *)
RECURSIVE Pow2Mod(_, _)
Pow2Mod(e, d) ==
    IF e <= 30 THEN (2^e) % d ELSE MulMod(Pow2Mod(e - 30, d), (2^30) % d, d)

(* the 54th significant bit of q + r / d, where q has lead bits and the
   binary expansion of r / d does not end.  The double nearest to the number
   lies above it exactly when this bit is 1. *)
Bit54(r, d, lead) ==
    LET first == Min({j \in 1..30 : r >= (d + 2^j - 1) \div 2^j})
        j     == IF lead > 0 THEN 54 - lead ELSE first + 53
    IN  2 * MulMod(r, Pow2Mod(j - 1, d), d) >= d

(* Python's round(x, places) on the float x: a tie goes to the even
   neighbour when x is a binary fraction, and otherwise to the side on
   which the double nearest to x lies *)
Round(x, places) ==
    LET a   == Abs(x.n)
        qr  == LongDiv(a \div x.d, a % x.d, x.d, places)
        tie == IF IsPowerOf2(x.d) THEN qr[1] % 2 = 1
               ELSE Bit54(a % x.d, x.d, BitLength(a \div x.d))
        up  == (2 * qr[2] > x.d) \/ (2 * qr[2] = x.d /\ tie)
        m   == IF up THEN qr[1] + 1 ELSE qr[1]
    IN  Rat(IF x.n < 0 THEN -m ELSE m, Pow10(places))

(* ------------------------------ safe_div ------------------------------ *)

(* mutant: the zero-denominator test is dropped and a zero is returned *)
safe_div_nozero(a, b) ==
    IF IsNone(a) \/ IsNone(b) THEN None
    ELSE IF IsZero(b) THEN Int2Num(0)
    ELSE Quot(a, b)

(* safe_div of ratio_smoke_test.py, financial_analyzer.py and agents.py *)
safe_div(a, b) ==
    IF IsNone(a) \/ IsNone(b) THEN None
    ELSE IF IsZero(b) THEN None
    ELSE Quot(a, b)

(* safe_div of mistral.py: the quotient is rounded to four decimals *)
safe_div_mistral(a, b) ==
    IF IsNone(a) \/ IsNone(b) \/ IsZero(b) THEN None
    ELSE Round(Quot(a, b), 4)

MaxVal == 4

Operands == {None} \cup {Int2Num(i) : i \in (-MaxVal)..MaxVal}

(* a call of f with arguments a is pending *)
Pending(f, a) == pc = "call" /\ fn = f /\ args = a /\ result = None

(* the pending call returns r *)
Return(r) == pc' = "done" /\ result' = r /\ UNCHANGED <<fn, args>>

Returned(f) == pc = "done" /\ fn = f

InitDiv ==
    \E f \in {"safe_div", "safe_div_mistral"}, a \in Operands, b \in Operands :
        Pending(f, <<a, b>>)

CallSafeDiv ==
    /\ pc = "call" /\ fn = "safe_div"
    /\ Return(safe_div(args[1], args[2]))

CallSafeDivMistral ==
    /\ pc = "call" /\ fn = "safe_div_mistral"
    /\ Return(safe_div_mistral(args[1], args[2]))

NextDiv == CallSafeDiv \/ CallSafeDivMistral

SpecDiv == InitDiv /\ [][NextDiv]_vars

IsSafeDivCall == Returned("safe_div") \/ Returned("safe_div_mistral")

DivUndefined == IsNone(args[1]) \/ IsNone(args[2]) \/ IsZero(args[2])

(* result * b = a : the result is the unrounded quotient *)
ExactQuotient ==
    /\ IsNum(result)
    /\ result.n * args[2].n * args[1].d = args[1].n * result.d * args[2].d

(* result is a multiple of 1/10000 and |result - a/b| <= 1/20000 *)
QuotientTo4Places ==
    /\ IsNum(result)
    /\ 10000 % result.d = 0
    /\ LET diff == Sub(result, Quot(args[1], args[2]))
       IN  Abs(diff.n) * 20000 <= diff.d

(* C2 as stated: every safe_div returns None exactly when an operand is
   None or the divisor is 0, and otherwise the unrounded quotient a / b. *)
C2_AsStated ==
    IsSafeDivCall =>
        /\ IsNone(result) <=> DivUndefined
        /\ ~DivUndefined => ExactQuotient

(* C2 amended: every safe_div returns None exactly when an operand is None
   or the divisor is 0; otherwise the safe_div of ratio_smoke_test.py,
   financial_analyzer.py and agents.py returns the unrounded quotient and
   the safe_div of mistral.py returns the quotient rounded to 4 decimals. *)
C2_SafeDiv ==
    IsSafeDivCall =>
        /\ IsNone(result) <=> DivUndefined
        /\ (~DivUndefined /\ fn = "safe_div") => ExactQuotient
        /\ (~DivUndefined /\ fn = "safe_div_mistral") => QuotientTo4Places

(* mistral's safe_div(1, 3) returned 0.3333, which is not 1/3 *)
C2_Witness ==
    /\ Returned("safe_div_mistral")
    /\ args = <<Int2Num(1), Int2Num(3)>>
    /\ result = Rat(3333, 10000)

(* --------------------------- ratio engines ---------------------------- *)

(* safe_gt(x, y): False for None *)
safe_gt(x, y) == IsNum(x) /\ Less(Int2Num(y), x)

(* a dictionary entry that is set only under a condition *)
SetIf(cond, v) == IF cond THEN v ELSE Absent


(* agents.py calculate_financial_ratios_inline(bs, pl); b holds the keys of
   bs and pl.  revenue - (cogs or 0) is evaluated before safe_div is
   entered, so a missing total_revenue raises TypeError out of the function. *)
calculate_financial_ratios_inline(b) ==
    LET ta == b.total_assets
        tl == b.total_liabilities
        te == PyOr(b.total_equity,
                   IF ~IsNone(ta) /\ ~IsNone(tl) THEN Sub(ta, tl) ELSE None)
        tca == b.total_current_assets
        tcl == b.total_current_liabilities
        inv == b.inventory
        revenue == b.total_revenue
        cogs == b.cost_of_goods_sold
        zero == Int2Num(0)
    IN  IF IsNone(revenue) THEN [exc |-> TRUE]
        ELSE [exc |-> FALSE,
              current_ratio |-> safe_div(tca, tcl),
              quick_ratio |-> IF ~IsNone(tca)
                              THEN safe_div(Sub(tca, PyOr(inv, zero)), tcl)
                              ELSE None,
              cash_ratio |-> safe_div(b.cash_and_equivalents, tcl),
              debt_to_equity |-> safe_div(tl, te),
              debt_ratio |-> safe_div(tl, ta),
              equity_ratio |-> safe_div(te, ta),
              net_profit_margin |-> safe_div(b.net_income, revenue),
              gross_margin |-> safe_div(Sub(revenue, PyOr(cogs, zero)), revenue),
              return_on_assets |-> safe_div(b.net_income, ta),
              return_on_equity |-> safe_div(b.net_income, te),
              inventory_turnover |-> safe_div(PyOr(cogs, zero), inv),
              receivables_turnover |-> safe_div(revenue, b.accounts_receivable),
              interest_coverage |-> safe_div(b.ebit, b.interest_expense)]

(* the closing loop of mistral.py calculate_financial_ratios: every float
   is rounded to two decimals *)
Round2(v) == IF IsNum(v) THEN Round(v, 2) ELSE v

(* mistral.py calculate_financial_ratios(data); m holds the keys of
   data["assets"], data["liabilities"], data["equity"] and data["p_and_l"] *)
mistral_calculate_financial_ratios(m) ==
    LET zero == Int2Num(0)
        capital_employed == Add(PyOr(m.total_equity, zero), PyOr(m.total_liabilities, zero))
        net_capital == safe_div_mistral(
                           Sub(PyOr(m.total_assets, zero), PyOr(m.total_liabilities, zero)),
                           Int2Num(1))
    IN  [exc |-> FALSE,
         current_ratio |-> Round2(safe_div_mistral(m.current_assets, m.current_liabilities)),
         quick_ratio |-> Round2(safe_div_mistral(
                             Add(PyOr(m.cash_and_equivalents, zero), PyOr(m.trade_receivables, zero)),
                             m.current_liabilities)),
         debt_to_equity |-> Round2(safe_div_mistral(m.total_liabilities, m.total_equity)),
         debt_to_assets |-> Round2(safe_div_mistral(m.total_liabilities, m.total_assets)),
         equity_ratio |-> Round2(safe_div_mistral(m.total_equity, m.total_assets)),
         roe |-> Round2(safe_div_mistral(m.net_profit, m.total_equity)),
         roce |-> Round2(safe_div_mistral(m.ebitda, capital_employed)),
         net_profit_margin |-> Round2(safe_div_mistral(m.net_profit, m.revenue)),
         inventory_turnover |-> Round2(safe_div_mistral(m.revenue, m.inventories)),
         trade_receivables_turnover |-> Round2(safe_div_mistral(m.revenue, m.trade_receivables)),
         trade_payables_turnover |-> Round2(safe_div_mistral(m.revenue, m.trade_payables)),
         debt_service_coverage |-> Round2(safe_div_mistral(m.ebitda, m.interest_expense)),
         roi |-> Round2(safe_div_mistral(m.net_profit, capital_employed)),
         net_capital_turnover |-> Round2(safe_div_mistral(m.revenue, net_capital))]

(* app.py compute_ratios_from_gemini_json, from the three numbers it
   located in the JSON: a zero equity gives debt_to_equity = 0 *)
compute_ratios_from_gemini_json(g) ==
    IF ~IsNone(g.total_assets) /\ ~IsNone(g.equity) /\ ~IsNone(g.total_liabilities)
    THEN [exc |-> FALSE, error |-> FALSE,
          debt_to_equity |-> IF ~IsZero(g.equity)
                             THEN Quot(g.total_liabilities, g.equity)
                             ELSE Int2Num(0),
          total_assets |-> g.total_assets,
          equity |-> g.equity]
    ELSE [exc |-> FALSE, error |-> TRUE,
          debt_to_equity |-> Absent, total_assets |-> Absent, equity |-> Absent]

(* app.py calculate_financial_ratios, lines 895-908: the derivation of
   missing totals, in the order of the source (each step sees the fields
   the earlier steps derived) *)
DeriveMissing(f) ==
    LET tl == IF IsNone(f.total_liabilities) /\ ~IsNone(f.total_assets) /\ ~IsNone(f.equity)
              THEN Sub(f.total_assets, f.equity) ELSE f.total_liabilities
        ta == IF IsNone(f.total_assets) /\ ~IsNone(tl) /\ ~IsNone(f.equity)
              THEN Add(tl, f.equity) ELSE f.total_assets
        cl == IF IsNone(f.current_liabilities) /\ ~IsNone(f.current_assets) /\ ~IsNone(tl)
              THEN Sub(tl, PyOr(f.non_current_liabilities, Int2Num(0)))
              ELSE f.current_liabilities
        nca == IF IsNone(f.non_current_assets) /\ ~IsNone(ta) /\ ~IsNone(f.current_assets)
               THEN Sub(ta, f.current_assets) ELSE f.non_current_assets
    IN  [f EXCEPT !.total_liabilities = tl, !.total_assets = ta,
                  !.current_liabilities = cl, !.non_current_assets = nca]

(* app.py calculate_financial_ratios, lines 910-1291, from the extracted
   balance-sheet fields f0 and profit-and-loss figures p; pl_given is the
   truth value of profit_loss_data.  A ratio the source leaves out of its
   category is Absent.  The interpretation labels are not modelled. *)
calculate_financial_ratios(f0, p, pl_given) ==
    LET f == DeriveMissing(f0)
        ta == f.total_assets
        tl == f.total_liabilities
        eq == f.equity
        ca == f.current_assets
        cl == f.current_liabilities
        nca == f.non_current_assets
        ncl == f.non_current_liabilities
        zero == Int2Num(0)
        has(x) == ~IsNone(x)
        pct(x) == Mul(x, Int2Num(100))
        revenue == p.revenue
        gross_profit == IF pl_given /\ has(revenue) /\ has(p.cogs) /\ safe_gt(revenue, 0)
                        THEN Sub(revenue, p.cogs) ELSE None
        prof == pl_given \/ has(revenue)
        receivables_turnover == Quot(revenue, f.receivables)
        dupont == has(p.net_income) /\ has(revenue) /\ safe_gt(revenue, 0)
                  /\ has(ta) /\ safe_gt(ta, 0) /\ has(eq) /\ safe_gt(eq, 0)
        net_margin_dupont == pct(Quot(p.net_income, revenue))
        fixed_charges == Add(p.interest_expense, Mul(cl, Rat(1, 10)))
        cash2 == None
    IN  [exc |-> FALSE,
         (* balance_sheet_summary *)
         sum_total_assets |-> SetIf(has(ta), ta),
         sum_total_liabilities |-> SetIf(has(tl), tl),
         sum_total_equity |-> SetIf(has(eq), eq),
         sum_current_assets |-> SetIf(has(ca), ca),
         sum_current_liabilities |-> SetIf(has(cl), cl),
         sum_non_current_assets |-> SetIf(has(nca), nca),
         sum_non_current_liabilities |-> SetIf(has(ncl), ncl),
         (* liquidity_ratios *)
         current_ratio |-> SetIf(has(ca) /\ has(cl) /\ safe_gt(cl, 0), Quot(ca, cl)),
         quick_ratio |-> SetIf(has(ca) /\ has(f.inventory) /\ has(cl) /\ safe_gt(cl, 0),
                               Quot(Sub(ca, PyOr(f.inventory, zero)), cl)),
         cash_ratio |-> SetIf(has(ca) /\ has(cl) /\ safe_gt(cl, 0),
                              Quot(PyOr(f.cash, zero), cl)),
         working_capital |-> SetIf(has(ca) /\ has(cl) /\ safe_gt(cl, 0), Sub(ca, cl)),
         working_capital_ratio |-> SetIf(has(ca) /\ has(cl) /\ safe_gt(cl, 0), Quot(ca, cl)),
         (* solvency_ratios *)
         debt_ratio |-> SetIf(has(tl) /\ has(ta) /\ safe_gt(ta, 0), Quot(tl, ta)),
         debt_to_equity |-> SetIf(has(tl) /\ has(eq) /\ safe_gt(eq, 0), Quot(tl, eq)),
         equity_ratio |-> SetIf(has(eq) /\ has(ta) /\ safe_gt(ta, 0), Quot(eq, ta)),
         long_term_debt_to_equity |-> SetIf(has(ncl) /\ has(eq) /\ safe_gt(eq, 0), Quot(ncl, eq)),
         assets_to_liabilities |-> SetIf(has(ta) /\ has(tl) /\ safe_gt(ta, 0),
                                         IF safe_gt(tl, 0) THEN Quot(ta, tl) ELSE Inf),
         leverage_ratio |-> SetIf(has(tl) /\ has(eq) /\ safe_gt(eq, 0), Quot(tl, eq)),
         current_liabilities_ratio |-> SetIf(has(cl) /\ has(tl) /\ safe_gt(tl, 0), Quot(cl, tl)),
         long_term_liabilities_ratio |-> SetIf(has(ncl) /\ has(tl) /\ safe_gt(tl, 0), Quot(ncl, tl)),
         interest_coverage |-> SetIf(has(p.ebit) /\ has(p.interest_expense)
                                        /\ safe_gt(p.interest_expense, 0),
                                     Quot(p.ebit, p.interest_expense)),
         debt_service_coverage |-> SetIf(has(p.ebit) /\ has(p.interest_expense)
                                            /\ safe_gt(p.interest_expense, 0),
                                         Quot(p.ebit, Mul(p.interest_expense, Rat(12, 10)))),
         fixed_charge_coverage |-> SetIf(has(p.ebit) /\ has(p.interest_expense)
                                            /\ has(cl) /\ safe_gt(cl, 0),
                                         IF Less(zero, fixed_charges)
                                         THEN Quot(p.ebit, fixed_charges) ELSE zero),
         (* capital_structure_ratios *)
         equity_multiplier |-> SetIf(has(eq) /\ has(ta) /\ safe_gt(ta, 0),
                                     IF safe_gt(eq, 0) THEN Quot(ta, eq) ELSE zero),
         retention_ratio |-> SetIf(has(f.share_capital) /\ has(eq) /\ safe_gt(eq, 0),
                                   Quot(Sub(eq, f.share_capital), eq)),
         long_term_debt_ratio |-> SetIf(has(ncl) /\ has(tl) /\ safe_gt(tl, 0), Quot(ncl, tl)),
         debt_to_assets |-> SetIf(has(tl) /\ has(ta) /\ safe_gt(ta, 0), Quot(tl, ta)),
         equity_to_debt |-> SetIf(has(eq) /\ has(tl) /\ safe_gt(tl, 0), Quot(eq, tl)),
         (* efficiency_ratios *)
         asset_base |-> SetIf(has(ta) /\ safe_gt(ta, 0), ta),
         receivables_to_current_assets |-> SetIf(has(f.receivables) /\ has(ca) /\ safe_gt(ca, 0),
                                                 Quot(f.receivables, ca)),
         current_assets_ratio |-> SetIf(has(ca) /\ has(ta) /\ safe_gt(ta, 0), Quot(ca, ta)),
         fixed_assets_ratio |-> SetIf(has(nca) /\ has(ta) /\ safe_gt(ta, 0), Quot(nca, ta)),
         (* profitability_ratios, times 100 *)
         gross_margin |-> SetIf(prof /\ has(gross_profit) /\ has(revenue) /\ safe_gt(revenue, 0),
                                pct(Quot(gross_profit, revenue))),
         operating_margin |-> SetIf(prof /\ has(p.operating_income) /\ has(revenue)
                                       /\ safe_gt(revenue, 0),
                                    pct(Quot(p.operating_income, revenue))),
         net_margin |-> SetIf(prof /\ has(p.net_income) /\ has(revenue) /\ safe_gt(revenue, 0),
                              pct(Quot(p.net_income, revenue))),
         roa |-> SetIf(prof /\ has(p.net_income) /\ has(ta) /\ safe_gt(ta, 0),
                       pct(Quot(p.net_income, ta))),
         roe |-> SetIf(prof /\ has(p.net_income) /\ has(eq) /\ safe_gt(eq, 0),
                       pct(Quot(p.net_income, eq))),
         ebitda_margin |-> SetIf(has(p.ebitda) /\ has(revenue) /\ safe_gt(revenue, 0),
                                 pct(Quot(p.ebitda, revenue))),
         ebit_margin |-> SetIf(has(p.ebit) /\ has(revenue) /\ safe_gt(revenue, 0),
                               pct(Quot(p.ebit, revenue))),
         return_on_sales |-> SetIf(has(p.net_income) /\ has(revenue) /\ safe_gt(revenue, 0),
                                   pct(Quot(p.net_income, revenue))),
         (* activity_ratios *)
         asset_turnover |-> SetIf(has(revenue) /\ has(ta) /\ safe_gt(ta, 0), Quot(revenue, ta)),
         receivables_turnover |-> SetIf(has(revenue) /\ has(f.receivables)
                                           /\ safe_gt(f.receivables, 0),
                                        receivables_turnover),
         days_sales_outstanding |-> SetIf(has(revenue) /\ has(f.receivables)
                                             /\ safe_gt(f.receivables, 0),
                                          IF safe_gt(receivables_turnover, 0)
                                          THEN Quot(Int2Num(365), receivables_turnover)
                                          ELSE zero),
         fixed_asset_turnover |-> SetIf(has(revenue) /\ has(nca) /\ safe_gt(nca, 0),
                                        Quot(revenue, nca)),
         current_asset_turnover |-> SetIf(has(revenue) /\ has(ca) /\ safe_gt(ca, 0),
                                          Quot(revenue, ca)),
         (* dupont_analysis *)
         dupont_net_profit_margin |-> SetIf(dupont, net_margin_dupont),
         dupont_asset_turnover |-> SetIf(dupont, Quot(revenue, ta)),
         dupont_equity_multiplier |-> SetIf(dupont, Quot(ta, eq)),
         roe_dupont |-> SetIf(dupont,
                              pct(Mul(Mul(Quot(net_margin_dupont, Int2Num(100)),
                                          Quot(revenue, ta)), Quot(ta, eq)))),
         (* working_capital_ratios: cash is reset to None at line 1202 *)
         wc_cash_ratio |-> SetIf(has(cash2) /\ has(cl) /\ safe_gt(cl, 0), Quot(cash2, cl)),
         operating_cash_ratio |-> SetIf(has(p.ebit) /\ has(cl) /\ safe_gt(cl, 0),
                                        Quot(p.ebit, cl)),
         (* valuation_ratios *)
         book_value_ratio |-> SetIf(has(eq), IF safe_gt(ta, 0) THEN Quot(eq, ta) ELSE zero),
         asset_quality_ratio |-> SetIf(has(ca) /\ has(ta) /\ safe_gt(ta, 0), Quot(ca, ta)),
         liquidity_quality_ratio |-> SetIf(has(cash2) /\ has(ca) /\ safe_gt(ca, 0),
                                           Quot(cash2, ca))]

(* app.py calculate_financial_ratios, lines 875-893 and 1042-1087: the
   profit-and-loss figures the engine works with.  With a profit_loss_data
   dict every figure is read from it as  value or value-of-the-second-key,
   the second key being absent, so a zero reads as None (ebit is
   operating_income); without
   one only the four figures of the structured source are set (ebit is
   ebitda); with neither all are None. *)
PLFigures(x, mode, pl_given) ==
    IF pl_given
    THEN [revenue |-> PyOr(x.revenue, None), cogs |-> PyOr(x.cogs, None),
          operating_income |-> PyOr(x.operating_income, None),
          net_income |-> PyOr(x.net_income, None),
          ebit |-> PyOr(x.operating_income, None),
          interest_expense |-> PyOr(x.interest_expense, None),
          ebitda |-> PyOr(x.ebitda, None)]
    ELSE IF mode = "mistral"
    THEN [revenue |-> x.revenue, cogs |-> None, operating_income |-> None,
          net_income |-> x.net_income, ebit |-> x.ebitda,
          interest_expense |-> x.interest_expense, ebitda |-> x.ebitda]
    ELSE [revenue |-> None, cogs |-> None, operating_income |-> None,
          net_income |-> None, ebit |-> None, interest_expense |-> None, ebitda |-> None]

(* app.py lines 835-873: the structured source supplies no share capital *)
Financials(x, mode) ==
    IF mode = "mistral" THEN [x EXCEPT !.share_capital = None] ELSE x

(* ------------------------- inputs of the engines ----------------------- *)

MaxChanged == 2

RECURSIVE SmallSubsets(_, _)
SmallSubsets(F, k) ==
    IF k = 0 THEN {{}}
    ELSE LET P == SmallSubsets(F, k - 1)
         IN  P \cup {S \cup {x} : S \in P, x \in F}

OddVals == {None, Int2Num(0), Int2Num(-50), Int2Num(300)}

(* a complete statement, or an empty one, with at most MaxChanged fields
   replaced by a missing, zero, negative or other value *)
Variants(base) ==
    LET from(b) ==
          UNION {{[x \in DOMAIN b |-> IF x \in S THEN g[x] ELSE b[x]] : g \in [S -> OddVals]}
                 : S \in SmallSubsets(DOMAIN b, MaxChanged)}
    IN  from(base) \cup from([x \in DOMAIN base |-> None])

InlineStatement ==
    [total_assets |-> Int2Num(2000), total_liabilities |-> Int2Num(1200),
     total_equity |-> Int2Num(800), total_current_assets |-> Int2Num(1000),
     total_current_liabilities |-> Int2Num(400), cash_and_equivalents |-> Int2Num(50),
     accounts_receivable |-> Int2Num(100), inventory |-> Int2Num(200),
     total_revenue |-> Int2Num(1500), net_income |-> Int2Num(120),
     cost_of_goods_sold |-> Int2Num(900), ebit |-> Int2Num(200),
     interest_expense |-> Int2Num(50)]

MistralStatement ==
    [total_assets |-> Int2Num(2000), current_assets |-> Int2Num(1000),
     cash_and_equivalents |-> Int2Num(50), inventories |-> Int2Num(200),
     trade_receivables |-> Int2Num(100), total_liabilities |-> Int2Num(1200),
     current_liabilities |-> Int2Num(400), trade_payables |-> Int2Num(80),
     total_equity |-> Int2Num(800), revenue |-> Int2Num(1500),
     net_profit |-> Int2Num(120), ebitda |-> Int2Num(250),
     interest_expense |-> Int2Num(50)]

AppStatement ==
    [total_assets |-> Int2Num(2000), current_assets |-> Int2Num(1000),
     non_current_assets |-> Int2Num(1000), total_liabilities |-> Int2Num(1200),
     current_liabilities |-> Int2Num(400), non_current_liabilities |-> Int2Num(800),
     equity |-> Int2Num(800), share_capital |-> Int2Num(100),
     inventory |-> Int2Num(200), receivables |-> Int2Num(100), cash |-> Int2Num(50),
     payables |-> Int2Num(80),
     revenue |-> Int2Num(1500), cogs |-> Int2Num(900), operating_income |-> Int2Num(200),
     net_income |-> Int2Num(120), interest_expense |-> Int2Num(50), ebitda |-> Int2Num(250)]

GeminiStatement ==
    [total_assets |-> Int2Num(2000), equity |-> Int2Num(800),
     total_liabilities |-> Int2Num(1200)]

InitRatio ==
    \/ \E b \in Variants(InlineStatement) :
           Pending("calculate_financial_ratios_inline", <<b>>)
    \/ \E m \in Variants(MistralStatement) :
           Pending("mistral_calculate_financial_ratios", <<m>>)
    \/ \E x \in Variants(AppStatement), mode \in {"rows", "mistral"}, pl_given \in BOOLEAN :
           Pending("calculate_financial_ratios", <<x, mode, pl_given>>)
    \/ \E g \in Variants(GeminiStatement) :
           Pending("compute_ratios_from_gemini_json", <<g>>)

CallInline ==
    /\ pc = "call" /\ fn = "calculate_financial_ratios_inline"
    /\ Return(calculate_financial_ratios_inline(args[1]))

CallMistralRatios ==
    /\ pc = "call" /\ fn = "mistral_calculate_financial_ratios"
    /\ Return(mistral_calculate_financial_ratios(args[1]))

CallAppRatios ==
    /\ pc = "call" /\ fn = "calculate_financial_ratios"
    /\ Return(calculate_financial_ratios(Financials(args[1], args[2]),
                                         PLFigures(args[1], args[2], args[3]), args[3]))

CallGeminiRatios ==
    /\ pc = "call" /\ fn = "compute_ratios_from_gemini_json"
    /\ Return(compute_ratios_from_gemini_json(args[1]))

NextRatio == CallInline \/ CallMistralRatios \/ CallAppRatios \/ CallGeminiRatios

SpecRatio == InitRatio /\ [][NextRatio]_vars

IsRatioCall ==
    pc = "done" /\ fn \in {"calculate_financial_ratios_inline",
                           "mistral_calculate_financial_ratios",
                           "calculate_financial_ratios",
                           "compute_ratios_from_gemini_json"}

NoValue(v) == v.k \in {"none", "absent"}

(* C1: for every input, with any subset of the financial fields missing,
   zero or negative, the ratio computation returns a ratio set and no
   exception leaves it. *)
C1_NeverRaises == IsRatioCall => ~result.exc

(* v is the value a safely divided ratio a / b may have: the quotient when
   both operands are present and b is not 0, and no value otherwise *)
SafelyDivided(v, a, b) ==
    IF ~IsNone(a) /\ ~IsNone(b) /\ ~IsZero(b)
    THEN NoValue(v) \/ v = Quot(a, b)
    ELSE NoValue(v)

(* C3: in the ratio set of the ratio engine a ratio is a quotient only when
   both operands are present and the denominator is not 0; in every other
   case it is None or absent, never 0, infinity or another number. *)
C3_SafeDivisionOnly ==
    /\ Returned("calculate_financial_ratios") =>
         LET f == DeriveMissing(Financials(args[1], args[2]))
         IN  /\ SafelyDivided(result.current_ratio, f.current_assets, f.current_liabilities)
             /\ SafelyDivided(result.cash_ratio, f.cash, f.current_liabilities)
             /\ SafelyDivided(result.debt_ratio, f.total_liabilities, f.total_assets)
             /\ SafelyDivided(result.equity_ratio, f.equity, f.total_assets)
             /\ SafelyDivided(result.debt_to_equity, f.total_liabilities, f.equity)
             /\ SafelyDivided(result.equity_multiplier, f.total_assets, f.equity)
             /\ SafelyDivided(result.assets_to_liabilities, f.total_assets, f.total_liabilities)
             /\ SafelyDivided(result.book_value_ratio, f.equity, f.total_assets)
    /\ Returned("compute_ratios_from_gemini_json") =>
         SafelyDivided(result.debt_to_equity, args[1].total_liabilities, args[1].equity)

(* C4: a field that was not extracted stays None and is never replaced by
   0: a ratio or derived field that depends on a missing field has no
   value. *)
C4_MissingIsNeverZero ==
    /\ Returned("calculate_financial_ratios") =>
         /\ IsNone(args[1].cash) => NoValue(result.cash_ratio)
         /\ (IsNone(args[1].current_liabilities) /\ IsNone(args[1].non_current_liabilities))
                => NoValue(result.sum_current_liabilities)
    /\ (Returned("calculate_financial_ratios_inline") /\ ~result.exc) =>
         /\ IsNone(args[1].inventory) => NoValue(result.quick_ratio)
         /\ IsNone(args[1].cost_of_goods_sold) =>
                NoValue(result.gross_margin) /\ NoValue(result.inventory_turnover)
    /\ Returned("mistral_calculate_financial_ratios") =>
         /\ (IsNone(args[1].cash_and_equivalents) \/ IsNone(args[1].trade_receivables))
                => NoValue(result.quick_ratio)
         /\ (IsNone(args[1].total_equity) \/ IsNone(args[1].total_liabilities))
                => NoValue(result.roce) /\ NoValue(result.roi)
         /\ (IsNone(args[1].total_assets) \/ IsNone(args[1].total_liabilities))
                => NoValue(result.net_capital_turnover)

(* ------------------------------- text -------------------------------- *)

(* str.lower() on the letters the statements use *)
LowerOf ==
    [A |-> "a", B |-> "b", C |-> "c", D |-> "d", E |-> "e", F |-> "f", G |-> "g",
     H |-> "h", I |-> "i", J |-> "j", K |-> "k", L |-> "l", M |-> "m", N |-> "n",
     O |-> "o", P |-> "p", Q |-> "q", R |-> "r", S |-> "s", T |-> "t", U |-> "u",
     V |-> "v", W |-> "w", X |-> "x", Y |-> "y", Z |-> "z"]

Uppercase == DOMAIN LowerOf

Lower(c) == IF c \in Uppercase THEN LowerOf[c] ELSE c

Letters == Uppercase \cup {LowerOf[u] : u \in Uppercase}

Digits == <<"0", "1", "2", "3", "4", "5", "6", "7", "8", "9">>

DigitSet == {Digits[i] : i \in 1..10}

IsDigit(c) == c \in DigitSet

DigitVal(c) == (CHOOSE i \in 1..10 : Digits[i] = c) - 1

(* the regex class \s *)
Whitespace == {" ", "\t", "\n", "\r", "\f", "nbsp"}

(* int() of a run of digits: the first n characters of s *)
RECURSIVE NatOf(_, _)
NatOf(s, n) == IF n = 0 THEN 0 ELSE 10 * NatOf(s, n - 1) + DigitVal(s[n])

(* float(s) for a string of digits, "." and "-": the value, or Raised for
   the ValueError *)
PyFloat(s) ==
    LET neg   == Len(s) > 0 /\ s[1] = "-"
        body  == IF neg THEN Tail(s) ELSE s
        dots  == {i \in 1..Len(body) : body[i] = "."}
        digs  == SelectSeq(body, IsDigit)
        ok    == /\ \A i \in 1..Len(body) : IsDigit(body[i]) \/ body[i] = "."
                 /\ Cardinality(dots) <= 1
                 /\ Len(digs) > 0
        scale == IF dots = {} THEN 0 ELSE Len(body) - (CHOOSE i \in dots : TRUE)
        v     == NatOf(digs, Len(digs))
    IN  IF ok THEN Rat(IF neg THEN -v ELSE v, Pow10(scale)) ELSE Raised

(* the first index at or after i whose character is outside the class
   (inside it, when negated); Len(T) + 1 when the run reaches the end *)
RECURSIVE Span(_, _, _, _)
Span(T, i, class, negated) ==
    IF i > Len(T) \/ ((T[i] \in class) = negated) THEN i
    ELSE Span(T, i + 1, class, negated)

(* T holds w at index i, letters compared without case *)
StartsAt(T, i, w) ==
    /\ i >= 1
    /\ i + Len(w) - 1 <= Len(T)
    /\ \A j \in 1..Len(w) : Lower(T[i + j - 1]) = Lower(w[j])

(* w.lower() in T.lower() *)
Contains(T, w) == \E i \in 1..(Len(T) - Len(w) + 1) : StartsAt(T, i, w)

(* str.splitlines() *)
RECURSIVE splitlines(_)
splitlines(T) ==
    IF T = <<>> THEN <<>>
    ELSE LET e    == Span(T, 1, {"\n", "\r", "\f"}, TRUE)
             last == IF e < Len(T) /\ T[e] = "\r" /\ T[e + 1] = "\n" THEN e + 1 ELSE e
         IN  <<SubSeq(T, 1, e - 1)>> \o splitlines(SubSeq(T, last + 1, Len(T)))

(* ------------------------ Line-Item Locator --------------------------- *)

(* the class [\$<rupee>Rs\.\s] *)
CurrencyChars == {"$", "rupee", "R", "s", "."} \cup Whitespace

(* the same class under re.IGNORECASE *)
CurrencyCharsAnyCase == CurrencyChars \cup {"r", "S"}

CurrencyClass(ignorecase) == IF ignorecase THEN CurrencyCharsAnyCase ELSE CurrencyChars

(* the class [\d,] *)
DigitOrComma == DigitSet \cup {","}

(* [\d,]+(?:\.\d+)?[\)]? matched at r: the index after the match *)
NumberEnd(T, r) ==
    LET e1 == Span(T, r, DigitOrComma, FALSE)
        e2 == IF e1 < Len(T) /\ T[e1] = "." /\ IsDigit(T[e1 + 1])
              THEN Span(T, e1 + 1, DigitSet, FALSE)
              ELSE e1
    IN  IF e2 <= Len(T) /\ T[e2] = ")" THEN e2 + 1 ELSE e2

(* the group ([\(\-]?[\$<rupee>Rs\.\s]*[\d,]+(?:\.\d+)?[\)]?) matched at q: the index
   after the match, 0 when it does not match there *)
AmountAt(T, q, ignorecase) ==
    LET Number(r) == IF r <= Len(T) /\ T[r] \in DigitOrComma THEN NumberEnd(T, r) ELSE 0
        From(s)   == Number(Span(T, s, CurrencyClass(ignorecase), FALSE))
    IN  IF q > Len(T) THEN 0
        ELSE From(IF T[q] \in {"(", "-"} THEN q + 1 ELSE q)

(* re.sub(r"[\$<rupee>Rs\.\s]", '', raw), the parentheses turned into a minus
   sign, the commas removed, then float(): the decimal point is removed
   with the currency characters *)
CleanedAmount(raw) ==
    LET cleaned   == SelectSeq(raw, LAMBDA c : c \notin CurrencyClass(FALSE))
        unwrapped == IF Len(cleaned) > 0 /\ cleaned[1] = "(" /\ cleaned[Len(cleaned)] = ")"
                     THEN <<"-">> \o SubSeq(cleaned, 2, Len(cleaned) - 1)
                     ELSE cleaned
    IN  PyFloat(SelectSeq(unwrapped, LAMBDA c : c # ","))

(* the rightmost index in lo..q at which the group matches, 0 when none:
   the backtracking of [^\n\r\d\-\(\)]* *)
RECURSIVE AmountBack(_, _, _)
AmountBack(T, q, lo) ==
    IF q < lo THEN 0
    ELSE IF AmountAt(T, q, TRUE) # 0 THEN q
    ELSE AmountBack(T, q - 1, lo)

(* the class [^\n\r\d\-\(\)] is the complement of this one *)
LabelStop == {"\n", "\r", "-", "(", ")"} \cup DigitSet

(* re.search(kw[^\n\r\d\-\(\)]*(group), T, re.IGNORECASE): group(1) of the
   leftmost match, <<>> when there is none *)
SameLineMatch(T, kw) ==
    LET Start(i)     == AmountBack(T, Span(T, i + Len(kw), LabelStop, TRUE), i + Len(kw))
        Group(q)     == SubSeq(T, q, AmountAt(T, q, TRUE) - 1)
        First(found) == IF found = {} THEN <<>> ELSE Group(Start(Min(found)))
    IN  First({i \in 1..Len(T) : StartsAt(T, i, kw) /\ Start(i) # 0})

(* the first loop of _find_amount from keyword k on: the first keyword
   whose match converts; a match that does not convert moves on to the next
   keyword *)
RECURSIVE SameLineAmount(_, _, _)
SameLineAmount(T, keywords, k) ==
    LET Converted(raw) == IF raw = <<>> THEN None ELSE CleanedAmount(raw)
        Chosen(v)      == IF IsNum(v) THEN v ELSE SameLineAmount(T, keywords, k + 1)
    IN  IF k > Len(keywords) THEN None
        ELSE Chosen(Converted(SameLineMatch(T, keywords[k])))

(* re.search of the group alone in a line, then the conversion *)
LineAmount(line) ==
    LET At(q)        == CleanedAmount(SubSeq(line, q, AmountAt(line, q, FALSE) - 1))
        First(found) == IF found = {} THEN None ELSE At(Min(found))
    IN  First({q \in 1..Len(line) : AmountAt(line, q, FALSE) # 0})

(* the second loop of _find_amount from line i on: in a line that holds a
   keyword, the first number of the line, else the first number of the
   next line *)
RECURSIVE NearbyAmount(_, _, _)
NearbyAmount(lines, keywords, i) ==
    LET Rest         == NearbyAmount(lines, keywords, i + 1)
        Second(next) == IF IsNum(next) THEN next ELSE Rest
        First(here)  == IF IsNum(here) THEN here
                        ELSE Second(IF i < Len(lines) THEN LineAmount(lines[i + 1]) ELSE None)
    IN  IF i > Len(lines) THEN None
        ELSE IF ~\E k \in 1..Len(keywords) : Contains(lines[i], keywords[k]) THEN Rest
        ELSE First(LineAmount(lines[i]))

(* _find_amount(text, keywords) *)
find_amount(text, keywords) ==
    LET norm_text     == [i \in 1..Len(text) |-> IF text[i] = "nbsp" THEN " " ELSE text[i]]
        Or(same_line) == IF IsNum(same_line) THEN same_line
                         ELSE NearbyAmount(splitlines(norm_text), keywords, 1)
    IN  Or(SameLineAmount(norm_text, keywords, 1))

(* ---------------------- Financial Field Extractor --------------------- *)

(* the keywords _extract_financial_numbers gives to _find_amount, field by
   field *)
FieldKeywords ==
    [current_assets |-> << <<"t", "o", "t", "a", "l", " ", "c", "u", "r", "r", "e", "n", "t", " ", "a", "s", "s", "e", "t", "s">>, <<"c", "u", "r", "r", "e", "n", "t", " ", "a", "s", "s", "e", "t", "s">>,
           <<"t", "o", "t", "a", "l", " ", "c", "u", "r", "r", "e", "n", "t", " ", "a", "s", "s", "e", "t", "s", " ", "a", "n", "d", " ", "l", "o", "a", "n", "s">>, <<"c", "u", "r", "r", "e", "n", "t", "s", " ", "a", "s", "s", "e", "t", "s">> >>,
     inventory |-> << <<"i", "n", "v", "e", "n", "t", "o", "r", "y">>, <<"s", "t", "o", "c", "k">>, <<"i", "n", "v", "e", "n", "t", "o", "r", "i", "e", "s">> >>,
     cash_and_cash_equivalents |-> << <<"c", "a", "s", "h", " ", "a", "n", "d", " ", "c", "a", "s", "h", " ", "e", "q", "u", "i", "v", "a", "l", "e", "n", "t", "s">>, <<"c", "a", "s", "h", " ", "a", "n", "d", " ", "c", "a", "s", "h", " ", "e", "q", "u", "i", "v", "a", "l", "e", "n", "t", "s">>,
           <<"c", "a", "s", "h", " ", "&", " ", "c", "a", "s", "h", " ", "e", "q", "u", "i", "v", "a", "l", "e", "n", "t", "s">>, <<"c", "a", "s", "h", " ", "a", "n", "d", " ", "b", "a", "n", "k", " ", "b", "a", "l", "a", "n", "c", "e", "s">>, <<"c", "a", "s", "h", " ", "i", "n", " ", "h", "a", "n", "d">> >>,
     current_liabilities |-> << <<"t", "o", "t", "a", "l", " ", "c", "u", "r", "r", "e", "n", "t", " ", "l", "i", "a", "b", "i", "l", "i", "t", "i", "e", "s">>, <<"c", "u", "r", "r", "e", "n", "t", " ", "l", "i", "a", "b", "i", "l", "i", "t", "i", "e", "s">>,
           <<"l", "i", "a", "b", "i", "l", "i", "t", "i", "e", "s", "-", " ", "c", "u", "r", "r", "e", "n", "t">>, <<"c", "u", "r", "r", "e", "n", "t", " ", "p", "o", "r", "t", "i", "o", "n", " ", "o", "f">> >>,
     total_assets |-> << <<"t", "o", "t", "a", "l", " ", "a", "s", "s", "e", "t", "s">>, <<"a", "s", "s", "e", "t", "s", " ", "t", "o", "t", "a", "l">>,
           <<"t", "o", "t", "a", "l", " ", "n", "o", "n", "-", "c", "u", "r", "r", "e", "n", "t", " ", "a", "n", "d", " ", "c", "u", "r", "r", "e", "n", "t", " ", "a", "s", "s", "e", "t", "s">> >>,
     total_equity |-> << <<"t", "o", "t", "a", "l", " ", "e", "q", "u", "i", "t", "y">>, <<"s", "h", "a", "r", "e", "h", "o", "l", "d", "e", "r", "s", " ", "f", "u", "n", "d", "s">>, <<"t", "o", "t", "a", "l", " ", "e", "q", "u", "i", "t", "y", " ", "a", "n", "d", " ", "l", "i", "a", "b", "i", "l", "i", "t", "i", "e", "s">>,
           <<"e", "q", "u", "i", "t", "y", " ", "a", "n", "d", " ", "l", "i", "a", "b", "i", "l", "i", "t", "i", "e", "s">>, <<"t", "o", "t", "a", "l", " ", "s", "h", "a", "r", "e", "h", "o", "l", "d", "e", "r", "s", "'", " ", "f", "u", "n", "d", "s">> >>,
     total_liabilities |-> << <<"t", "o", "t", "a", "l", " ", "l", "i", "a", "b", "i", "l", "i", "t", "i", "e", "s">>, <<"l", "i", "a", "b", "i", "l", "i", "t", "i", "e", "s", " ", "t", "o", "t", "a", "l">> >>,
     revenue |-> << <<"t", "o", "t", "a", "l", " ", "r", "e", "v", "e", "n", "u", "e">>, <<"r", "e", "v", "e", "n", "u", "e">>, <<"n", "e", "t", " ", "s", "a", "l", "e", "s">>, <<"s", "a", "l", "e", "s">>, <<"t", "u", "r", "n", "o", "v", "e", "r">> >>,
     cogs |-> << <<"c", "o", "s", "t", " ", "o", "f", " ", "g", "o", "o", "d", "s", " ", "s", "o", "l", "d">>, <<"c", "o", "s", "t", " ", "o", "f", " ", "s", "a", "l", "e", "s">>, <<"c", "o", "s", "t", " ", "o", "f", " ", "m", "a", "t", "e", "r", "i", "a", "l", "s">>,
           <<"d", "i", "r", "e", "c", "t", " ", "e", "x", "p", "e", "n", "s", "e", "s">>, <<"c", "o", "s", "t", " ", "o", "f", " ", "r", "e", "v", "e", "n", "u", "e">> >>,
     gross_profit |-> << <<"g", "r", "o", "s", "s", " ", "p", "r", "o", "f", "i", "t">>, <<"g", "r", "o", "s", "s", " ", "m", "a", "r", "g", "i", "n">> >>,
     operating_income |-> << <<"o", "p", "e", "r", "a", "t", "i", "n", "g", " ", "p", "r", "o", "f", "i", "t">>, <<"o", "p", "e", "r", "a", "t", "i", "n", "g", " ", "i", "n", "c", "o", "m", "e">>, <<"p", "r", "o", "f", "i", "t", " ", "f", "r", "o", "m", " ", "o", "p", "e", "r", "a", "t", "i", "o", "n", "s">> >>,
     ebit |-> << <<"p", "r", "o", "f", "i", "t", " ", "b", "e", "f", "o", "r", "e", " ", "f", "i", "n", "a", "n", "c", "e", " ", "c", "o", "s", "t", "s", " ", "a", "n", "d", " ", "t", "a", "x">>, <<"e", "b", "i", "t">>,
           <<"e", "a", "r", "n", "i", "n", "g", "s", " ", "b", "e", "f", "o", "r", "e", " ", "i", "n", "t", "e", "r", "e", "s", "t", " ", "a", "n", "d", " ", "t", "a", "x">>, <<"p", "r", "o", "f", "i", "t", " ", "b", "e", "f", "o", "r", "e", " ", "i", "n", "t", "e", "r", "e", "s", "t", " ", "a", "n", "d", " ", "t", "a", "x">> >>,
     interest_expense |-> << <<"f", "i", "n", "a", "n", "c", "e", " ", "c", "o", "s", "t", "s">>, <<"i", "n", "t", "e", "r", "e", "s", "t", " ", "e", "x", "p", "e", "n", "s", "e">>, <<"i", "n", "t", "e", "r", "e", "s", "t", " ", "p", "a", "i", "d">> >>,
     net_income |-> << <<"p", "r", "o", "f", "i", "t", " ", "f", "o", "r", " ", "t", "h", "e", " ", "y", "e", "a", "r">>, <<"n", "e", "t", " ", "p", "r", "o", "f", "i", "t">>, <<"p", "r", "o", "f", "i", "t", " ", "a", "f", "t", "e", "r", " ", "t", "a", "x">>, <<"n", "e", "t", " ", "i", "n", "c", "o", "m", "e">> >>,
     receivables |-> << <<"t", "r", "a", "d", "e", " ", "r", "e", "c", "e", "i", "v", "a", "b", "l", "e", "s">>, <<"r", "e", "c", "e", "i", "v", "a", "b", "l", "e", "s">>, <<"a", "c", "c", "o", "u", "n", "t", "s", " ", "r", "e", "c", "e", "i", "v", "a", "b", "l", "e">>, <<"d", "e", "b", "t", "o", "r", "s">> >>,
     payables |-> << <<"t", "r", "a", "d", "e", " ", "p", "a", "y", "a", "b", "l", "e", "s">>, <<"p", "a", "y", "a", "b", "l", "e", "s">>, <<"a", "c", "c", "o", "u", "n", "t", "s", " ", "p", "a", "y", "a", "b", "l", "e">>, <<"c", "r", "e", "d", "i", "t", "o", "r", "s">> >>]

(* financial_analyzer.py _extract_financial_numbers(text): each field is
   what _find_amount returns for the field's keywords *)
extract_financial_numbers(t) ==
    [field \in DOMAIN FieldKeywords |-> find_amount(t, FieldKeywords[field])]

(* round(v, 4) of a ratio that has a value *)
Round4(v) == IF IsNum(v) THEN Round(v, 4) ELSE v

(* financial_analyzer.py calculate_financial_ratios_from_text, from the
   statement after nums = self._extract_financial_numbers(text) on; the
   sidecar _extracted_numbers is the field extracted_numbers *)
RatiosOfNumbers(nums) ==
    LET has(x) == ~IsNone(x)
        quick_assets == IF has(nums.current_assets) /\ has(nums.inventory)
                        THEN Sub(nums.current_assets, nums.inventory) ELSE None
        working_capital == IF has(nums.current_assets) /\ has(nums.current_liabilities)
                           THEN Sub(nums.current_assets, nums.current_liabilities) ELSE None
        gross_profit == IF has(nums.gross_profit) THEN nums.gross_profit
                        ELSE IF has(nums.revenue) /\ has(nums.cogs)
                             THEN Sub(nums.revenue, nums.cogs) ELSE None
        gross_margin == IF has(nums.revenue) /\ ~IsZero(nums.revenue) /\ has(gross_profit)
                        THEN Quot(gross_profit, nums.revenue) ELSE None
        receivables_turnover == safe_div(nums.revenue, nums.receivables)
        inventory_turnover == safe_div(nums.cogs, nums.inventory)
        days(turnover) == IF Truthy(turnover) THEN Quot(Int2Num(365), turnover) ELSE None
    IN  [liquidity_ratios |->
           [current_ratio |-> Round4(safe_div(nums.current_assets, nums.current_liabilities)),
            quick_ratio |-> Round4(safe_div(quick_assets, nums.current_liabilities)),
            cash_ratio |-> Round4(safe_div(nums.cash_and_cash_equivalents,
                                           nums.current_liabilities)),
            working_capital |-> working_capital],
         profitability_ratios |->
           [gross_profit |-> gross_profit,
            gross_margin |-> Round4(gross_margin),
            operating_profit |-> nums.operating_income,
            operating_margin |-> Round4(safe_div(nums.operating_income, nums.revenue)),
            net_profit |-> nums.net_income,
            net_margin |-> Round4(safe_div(nums.net_income, nums.revenue)),
            return_on_assets |-> Round4(safe_div(nums.net_income, nums.total_assets)),
            return_on_equity |-> Round4(safe_div(nums.net_income, nums.total_equity))],
         solvency_ratios |->
           [debt_ratio |-> Round4(safe_div(nums.total_liabilities, nums.total_assets)),
            equity_ratio |-> Round4(safe_div(nums.total_equity, nums.total_assets)),
            debt_to_equity |-> Round4(safe_div(nums.total_liabilities, nums.total_equity)),
            equity_to_debt |-> Round4(safe_div(nums.total_equity, nums.total_liabilities)),
            interest_coverage |-> Round4(safe_div(PyOr(nums.ebit, nums.operating_income),
                                                  nums.interest_expense)),
            debt_service_coverage |-> Round4(safe_div(nums.net_income,
                                                      nums.total_liabilities))],
         efficiency_ratios |->
           [asset_turnover |-> Round4(safe_div(nums.revenue, nums.total_assets)),
            inventory_turnover |-> Round4(inventory_turnover),
            receivables_turnover |-> Round4(receivables_turnover),
            payables_turnover |-> Round4(safe_div(nums.cogs, nums.payables)),
            days_sales_outstanding |-> Round4(days(receivables_turnover)),
            inventory_holding_period |-> Round4(days(inventory_turnover))],
         extracted_numbers |-> nums]

(* financial_analyzer.py calculate_financial_ratios_from_text(text) *)
calculate_financial_ratios_from_text(text) ==
    RatiosOfNumbers(extract_financial_numbers(text))

(* --------------------------- Number Parser ---------------------------- *)

(* str.lower() *)
LowerStr(T) == [i \in 1..Len(T) |-> Lower(T[i])]

(* str.strip(chars) *)
Strip(T, chars) ==
    LET keep == {i \in 1..Len(T) : T[i] \notin chars}
    IN  IF keep = {} THEN <<>> ELSE SubSeq(T, Min(keep), Max(keep))

Keep(T, chars) == SelectSeq(T, LAMBDA c : c \in chars)

Drop(T, chars) == SelectSeq(T, LAMBDA c : c \notin chars)

Neg(x) == Rat(-x.n, x.d)

(* s.startswith("(") and s.endswith(")") *)
InParentheses(s) == Len(s) > 0 /\ s[1] = "(" /\ s[Len(s)] = ")"

(* app.py parse_number(val) on a string *)
parse_number(val) ==
    LET s       == LowerStr(Strip(val, Whitespace))
        neg     == InParentheses(s)
        cleaned == Keep(Drop(Strip(s, {"(", ")"}), {"rupee", "$", ","}),
                        DigitSet \cup {".", "-"})
        num     == PyFloat(cleaned)
    IN  IF s = <<>> \/ s \in {<<"-">>, <<"emdash">>, <<"n", "a">>, <<"n", "i", "l">>} THEN None
        ELSE IF cleaned = <<>> \/ cleaned = <<".">> THEN None
        ELSE IF ~IsNum(num) THEN None
        ELSE IF neg THEN Neg(num) ELSE num

(* (lakhs?|lakh|crore|crores|cr)? matched at index i: the multiplier the
   parsers give the suffix and the index after it; no suffix is the
   multiplier 1 with the index unchanged *)
ScaleSuffix(T, i) ==
    IF StartsAt(T, i, <<"l", "a", "k", "h", "s">>) THEN [mult |-> 100000, end |-> i + 5]
    ELSE IF StartsAt(T, i, <<"l", "a", "k", "h">>) THEN [mult |-> 100000, end |-> i + 4]
    ELSE IF StartsAt(T, i, <<"c", "r", "o", "r", "e">>) THEN [mult |-> 10000000, end |-> i + 5]
    ELSE IF StartsAt(T, i, <<"c", "r">>) THEN [mult |-> 10000000, end |-> i + 2]
    ELSE [mult |-> 1, end |-> i]

(* float(re.sub(r"[^0-9.\-]", "", s)) inside try: None when it raises *)
FloatOfDigits(s) ==
    LET v == PyFloat(Keep(s, DigitSet \cup {".", "-"}))
    IN  IF IsNum(v) THEN v ELSE None

(* mistral.py _parse_number_token(s): float() of the mantissa stands outside
   any try, so a mantissa that is no number raises ValueError *)
parse_number_token(s0) ==
    LET class        == DigitSet \cup {",", "."}
        Signed(s, v) == IF IsNum(v) /\ InParentheses(s) THEN Neg(v) ELSE v
        Scaled(num, mult) == IF ~IsNum(num) THEN Raised ELSE Mul(num, Int2Num(mult))
        Matched(body, found) ==
            LET e == Span(body, Min(found), class, FALSE)
            IN  IF found = {} THEN FloatOfDigits(body)
                ELSE Scaled(PyFloat(Drop(SubSeq(body, Min(found), e - 1), {","})),
                            ScaleSuffix(body, Span(body, e, Whitespace, FALSE)).mult)
        Searched(body) == Matched(body, {i \in 1..Len(body) : body[i] \in class})
        Parsed(s)      == Signed(s, Searched(Strip(s, {"(", ")"})))
    IN  IF s0 = <<>> THEN None ELSE Parsed(LowerStr(Strip(s0, Whitespace)))

(* app.py _convert_indian_number_match(s): the parentheses are matched and
   dropped, the sign comes from a minus sign only *)
convert_indian_number_match(s0) ==
    LET Matched(s) ==
            LET open   == IF Len(s) > 0 /\ s[1] = "(" THEN 2 ELSE 1
                first  == IF open <= Len(s) /\ s[open] = "-" THEN open + 1 ELSE open
                e1     == Span(s, first, DigitSet, FALSE)
                e2     == IF e1 < Len(s) /\ s[e1] = "." /\ IsDigit(s[e1 + 1])
                          THEN Span(s, e1 + 1, DigitSet, FALSE) ELSE e1
                close  == IF e2 <= Len(s) /\ s[e2] = ")" THEN e2 + 1 ELSE e2
                mult   == ScaleSuffix(s, Span(s, close, Whitespace, FALSE)).mult
                num    == PyFloat(SubSeq(s, open, e2 - 1))
            IN  IF e1 = first THEN FloatOfDigits(s)
                ELSE Mul(num, Int2Num(mult))
    IN  IF s0 = <<>> THEN None
        ELSE Matched(Drop(LowerStr(Strip(s0, Whitespace)), {","}))

(* -------------------- simulate_extract_balance_sheet ------------------ *)

(* the class [a-zA-Z\s&,-] *)
TextChars == Letters \cup Whitespace \cup {"&", ",", "-"}

(* \(?[0-9,]+(?:\.[0-9]+)?\)?(?:\s*(?:lakhs?|lakh|crore|crores|cr))? matched
   at index i: the index after the match, 0 when it does not match *)
NumberTokenEnd(T, i) ==
    LET r == IF i < Len(T) /\ T[i] = "(" /\ T[i + 1] \in DigitOrComma THEN i + 1 ELSE i
        Suffixed(e, blank) ==
            LET Longer(end) == IF end > blank THEN end ELSE e
            IN  Longer(ScaleSuffix(T, blank).end)
        After(e) == Suffixed(e, Span(T, e, Whitespace, FALSE))
    IN  IF r > Len(T) \/ T[r] \notin DigitOrComma THEN 0
        ELSE After(NumberEnd(T, r))

(* re.findall of the number token or a run of text, from index i on *)
RECURSIVE Tokens(_, _)
Tokens(T, i) ==
    LET Text(t)   == IF t > i THEN <<SubSeq(T, i, t - 1)>> \o Tokens(T, t)
                     ELSE Tokens(T, i + 1)
        Number(n) == IF n # 0 THEN <<SubSeq(T, i, n - 1)>> \o Tokens(T, n)
                     ELSE Text(Span(T, i, TextChars, FALSE))
    IN  IF i > Len(T) THEN <<>> ELSE Number(NumberTokenEnd(T, i))

(* mistral.py lines 366-391 for one stripped line: the numbers of the
   tokens (the first token is skipped when it is no number), then the second
   of three or more numbers, else the first.  Raised when a token makes
   _parse_number_token raise. *)
LineValue(ln) ==
    LET Chosen(nums) == IF Len(nums) >= 3 THEN nums[2]
                        ELSE IF Len(nums) >= 1 THEN nums[1]
                        ELSE None
        Of(vals)     == IF \E i \in 1..Len(vals) : vals[i] = Raised THEN Raised
                        ELSE Chosen(SelectSeq(vals, IsNum))
        Values(tokens, start) ==
            Of([i \in 1..(Len(tokens) - start + 1) |->
                    parse_number_token(tokens[i + start - 1])])
        Numbers(tokens) ==
            Values(tokens,
                   IF tokens # <<>> /\ NumberTokenEnd(tokens[1], 1) = 0 THEN 2 ELSE 1)
    IN  Numbers(Tokens(ln, 1))

(* the mapping of mistral.py lines 335-354, each regex written out as the
   strings it matches *)
mapping ==
    << [section |-> "assets", key |-> "total_assets", alts |-> << <<"t", "o", "t", "a", "l", " ", "a", "s", "s", "e", "t", "s">> >>],
       [section |-> "assets", key |-> "current_assets",
        alts |-> << <<"c", "u", "r", "r", "e", "n", "t", " ", "a", "s", "s", "e", "t", "s">>, <<"t", "o", "t", "a", "l", " ", "c", "u", "r", "r", "e", "n", "t", " ", "a", "s", "s", "e", "t", "s">> >>],
       [section |-> "liabilities", key |-> "total_liabilities",
        alts |-> << <<"t", "o", "t", "a", "l", " ", "l", "i", "a", "b", "i", "l", "i", "t", "i", "e", "s">> >>],
       [section |-> "liabilities", key |-> "current_liabilities",
        alts |-> << <<"c", "u", "r", "r", "e", "n", "t", " ", "l", "i", "a", "b", "i", "l", "i", "t", "i", "e", "s">>, <<"t", "o", "t", "a", "l", " ", "c", "u", "r", "r", "e", "n", "t", " ", "l", "i", "a", "b", "i", "l", "i", "t", "i", "e", "s">> >>],
       [section |-> "equity", key |-> "total_equity", alts |-> << <<"t", "o", "t", "a", "l", " ", "e", "q", "u", "i", "t", "y">> >>],
       [section |-> "assets", key |-> "cash_and_equivalents",
        alts |-> << <<"c", "a", "s", "h", " ", "a", "n", "d", " ", "c", "a", "s", "h", " ", "e", "q", "u", "i", "v", "a", "l", "e", "n", "t", "s">>, <<"c", "a", "s", "h", " ", "a", "n", "d", " ", "e", "q", "u", "i", "v", "a", "l", "e", "n", "t", "s">>, <<"c", "a", "s", "h">> >>],
       [section |-> "assets", key |-> "inventories",
        alts |-> << <<"i", "n", "v", "e", "n", "t", "o", "r", "y">>, <<"i", "n", "v", "e", "n", "t", "o", "r", "i", "e", "s">> >>],
       [section |-> "assets", key |-> "trade_receivables",
        alts |-> << <<"a", "c", "c", "o", "u", "n", "t", "s", " ", "r", "e", "c", "e", "i", "v", "a", "b", "l", "e">>, <<"t", "r", "a", "d", "e", " ", "r", "e", "c", "e", "i", "v", "a", "b", "l", "e", "s">>, <<"r", "e", "c", "e", "i", "v", "a", "b", "l", "e">> >>],
       [section |-> "assets", key |-> "property_plant_equipment",
        alts |-> << <<"p", "r", "o", "p", "e", "r", "t", "y", ",", " ", "p", "l", "a", "n", "t">>, <<"p", "r", "o", "p", "e", "r", "t", "y", " ", "&", " ", "p", "l", "a", "n", "t">>,
                    <<"p", "r", "o", "p", "e", "r", "t", "y", " ", "p", "l", "a", "n", "t", " ", "a", "n", "d", " ", "e", "q", "u", "i", "p", "m", "e", "n", "t">>, <<"p", "p", "e">>, <<"f", "i", "x", "e", "d", " ", "a", "s", "s", "e", "t", "s">> >>],
       [section |-> "liabilities", key |-> "trade_payables",
        alts |-> << <<"a", "c", "c", "o", "u", "n", "t", "s", " ", "p", "a", "y", "a", "b", "l", "e">>, <<"t", "r", "a", "d", "e", " ", "p", "a", "y", "a", "b", "l", "e", "s">>, <<"p", "a", "y", "a", "b", "l", "e", "s">> >>],
       [section |-> "liabilities", key |-> "short_term_borrowings",
        alts |-> << <<"s", "h", "o", "r", "t", "-", "t", "e", "r", "m", " ", "b", "o", "r", "r", "o", "w", "i", "n", "g", "s">>, <<"s", "h", "o", "r", "t", " ", "t", "e", "r", "m", " ", "b", "o", "r", "r", "o", "w", "i", "n", "g", "s">>,
                    <<"s", "h", "o", "r", "t", "-", "t", "e", "r", "m", " ", "d", "e", "b", "t">> >>],
       [section |-> "liabilities", key |-> "long_term_borrowings",
        alts |-> << <<"l", "o", "n", "g", "-", "t", "e", "r", "m", " ", "b", "o", "r", "r", "o", "w", "i", "n", "g", "s">>, <<"l", "o", "n", "g", " ", "t", "e", "r", "m", " ", "b", "o", "r", "r", "o", "w", "i", "n", "g", "s">>,
                    <<"l", "o", "n", "g", " ", "t", "e", "r", "m", " ", "d", "e", "b", "t">>, <<"l", "o", "n", "g", "-", "t", "e", "r", "m", " ", "d", "e", "b", "t">> >>],
       [section |-> "p_and_l", key |-> "revenue",
        alts |-> << <<"r", "e", "v", "e", "n", "u", "e">>, <<"t", "u", "r", "n", "o", "v", "e", "r">>, <<"s", "a", "l", "e", "s">> >>],
       [section |-> "p_and_l", key |-> "net_profit",
        alts |-> << <<"n", "e", "t", " ", "i", "n", "c", "o", "m", "e">>, <<"n", "e", "t", " ", "p", "r", "o", "f", "i", "t">>, <<"p", "r", "o", "f", "i", "t", " ", "f", "o", "r", " ", "t", "h", "e", " ", "y", "e", "a", "r">> >>],
       [section |-> "p_and_l", key |-> "ebitda", alts |-> << <<"e", "b", "i", "t", "d", "a">> >>],
       [section |-> "p_and_l", key |-> "interest_expense",
        alts |-> << <<"i", "n", "t", "e", "r", "e", "s", "t", " ", "e", "x", "p", "e", "n", "s", "e">>, <<"f", "i", "n", "a", "n", "c", "e", " ", "c", "o", "s", "t", "s">> >>] >>

(* re.search(regex, low) for some regex of the mapping that leads to the
   given key, any key when key is "" *)
Mapped(ln, section, key) ==
    \E m \in 1..Len(mapping) :
        /\ key = "" \/ (mapping[m].section = section /\ mapping[m].key = key)
        /\ \E a \in 1..Len(mapping[m].alts) : Contains(ln, mapping[m].alts[a])

(* re.search(r"(20\d{2})", ocr_text): the first year, None without one *)
FirstYear(T) ==
    LET found == {i \in 1..(Len(T) - 3) : /\ T[i] = "2" /\ T[i + 1] = "0"
                                          /\ IsDigit(T[i + 2]) /\ IsDigit(T[i + 3])}
    IN  IF found = {} THEN None ELSE SubSeq(T, Min(found), Min(found) + 3)

(* mistral.py simulate_extract_balance_sheet(ocr_text): a later line
   overwrites what an earlier line stored; exc when a token of a mapped line
   makes _parse_number_token raise *)
simulate_extract_balance_sheet(ocr_text) ==
    LET Stored(lines, value, section, key, initial) ==
            LET Last(hits) == IF hits = {} THEN initial ELSE value[Max(hits)]
            IN  Last({i \in 1..Len(lines) : /\ IsNum(value[i])
                                            /\ Mapped(lines[i], section, key)})
        Filled(found_total, current_assets, ppe) ==
            IF IsNone(found_total) /\ (~IsNone(current_assets) \/ ~IsNone(ppe))
            THEN Add(IF IsNone(current_assets) THEN Int2Num(0) ELSE current_assets,
                     IF IsNone(ppe) THEN Int2Num(0) ELSE ppe)
            ELSE found_total
        Out(lines, value) ==
            LET Of(section, key) == Stored(lines, value, section, key, None)
            IN  IF \E i \in 1..Len(lines) : value[i] = Raised THEN [exc |-> TRUE]
                ELSE [exc |-> FALSE,
                      year |-> FirstYear(ocr_text),
                      assets |->
                        [total_assets |-> Filled(Of("assets", "total_assets"),
                                                 Of("assets", "current_assets"),
                                                 Of("assets", "property_plant_equipment")),
                         current_assets |-> Of("assets", "current_assets"),
                         cash_and_equivalents |-> Of("assets", "cash_and_equivalents"),
                         inventories |-> Of("assets", "inventories"),
                         trade_receivables |-> Of("assets", "trade_receivables"),
                         property_plant_equipment |-> Of("assets", "property_plant_equipment")],
                      liabilities |->
                        [total_liabilities |-> Of("liabilities", "total_liabilities"),
                         current_liabilities |-> Of("liabilities", "current_liabilities"),
                         trade_payables |-> Of("liabilities", "trade_payables"),
                         short_term_borrowings |-> Of("liabilities", "short_term_borrowings"),
                         long_term_borrowings |-> Of("liabilities", "long_term_borrowings")],
                      equity |-> [total_equity |-> Of("equity", "total_equity")],
                      p_and_l |->
                        [turnover |-> None,
                         net_profit |-> Of("p_and_l", "net_profit"),
                         ebitda |-> Of("p_and_l", "ebitda"),
                         interest_expense |-> Of("p_and_l", "interest_expense"),
                         revenue |-> Stored(lines, value, "p_and_l", "revenue", Absent)]]
        Values(lines) ==
            Out(lines, [i \in 1..Len(lines) |->
                            IF lines[i] # <<>> /\ Mapped(lines[i], "", "")
                            THEN LineValue(lines[i]) ELSE None])
        Stripped(raw) == Values([i \in 1..Len(raw) |-> Strip(raw[i], Whitespace)])
    IN  Stripped(splitlines(ocr_text))

(* ------------------------ debug_analyze_session ----------------------- *)

(* \(?-?[0-9,]+(?:\.[0-9]+)?\)?\s*(?:lakhs?|lakh|crore|crores|cr)? matched at
   index i: the index after the match, 0 when it does not match *)
CandidateTokenEnd(T, i) ==
    LET Body(r) ==
            LET first  == IF r <= Len(T) /\ T[r] = "-" THEN r + 1 ELSE r
                e1     == Span(T, first, DigitOrComma, FALSE)
                e2     == IF e1 < Len(T) /\ T[e1] = "." /\ IsDigit(T[e1 + 1])
                          THEN Span(T, e1 + 1, DigitSet, FALSE) ELSE e1
                close  == IF e2 <= Len(T) /\ T[e2] = ")" THEN e2 + 1 ELSE e2
                blank  == Span(T, close, Whitespace, FALSE)
            IN  IF e1 = first THEN 0 ELSE ScaleSuffix(T, blank).end
    IN  Body(IF i <= Len(T) /\ T[i] = "(" THEN i + 1 ELSE i)

(* re.findall of that token from index i on, each converted by
   _convert_indian_number_match; the tokens that convert to None are left
   out *)
RECURSIVE LineNumbers(_, _)
LineNumbers(T, i) ==
    LET Kept(v)  == IF IsNum(v) THEN <<v>> ELSE <<>>
        Found(b, e) == Kept(convert_indian_number_match(SubSeq(T, b, e - 1)))
                       \o LineNumbers(T, e)
        From(starts) == IF starts = {} THEN <<>>
                        ELSE Found(Min(starts), CandidateTokenEnd(T, Min(starts)))
    IN  From({b \in i..Len(T) : CandidateTokenEnd(T, b) # 0})

(* app.py extract_numeric_candidates_from_pdf for the text of one page: the
   stripped non-empty lines that hold a number *)
extract_numeric_candidates(text) ==
    LET Candidates(lines) ==
            SelectSeq([i \in 1..Len(lines) |-> [text |-> lines[i],
                                                numbers |-> LineNumbers(lines[i], 1)]],
                      LAMBDA c : c.numbers # <<>>)
        NonEmpty(raw) ==
            Candidates(SelectSeq([i \in 1..Len(raw) |-> Strip(raw[i], Whitespace)],
                                 LAMBDA l : l # <<>>))
    IN  NonEmpty(splitlines(text))

(* the keyword mapping of debug_analyze_session, in the order of the dict *)
debug_mapping ==
    << [field |-> "cash",
        keywords |-> << <<"c", "a", "s", "h", " ", "a", "n", "d", " ", "c", "a", "s", "h", " ", "e", "q", "u", "i", "v", "a", "l", "e", "n", "t", "s">>, <<"c", "a", "s", "h", " ", "a", "n", "d", " ", "c", "a", "s", "h", " ", "e", "q", "u", "i", "v", "a", "l", "e", "n", "t", "s">>,
                        <<"c", "a", "s", "h">> >>],
       [field |-> "inventory", keywords |-> << <<"i", "n", "v", "e", "n", "t", "o", "r", "y">>, <<"i", "n", "v", "e", "n", "t", "o", "r", "i", "e", "s">> >>],
       [field |-> "current_liabilities",
        keywords |-> << <<"c", "u", "r", "r", "e", "n", "t", " ", "l", "i", "a", "b", "i", "l", "i", "t", "i", "e", "s">>, <<"c", "u", "r", "r", "e", "n", "t", " ", "l", "i", "a", "b", "i", "l", "i", "t", "y">>,
                        <<"c", "u", "r", "r", "e", "n", "t", " ", "p", "o", "r", "t", "i", "o", "n", " ", "o", "f", " ", "l", "o", "n", "g", "-", "t", "e", "r", "m", " ", "d", "e", "b", "t">> >>],
       [field |-> "non_current_liabilities",
        keywords |-> << <<"n", "o", "n", "-", "c", "u", "r", "r", "e", "n", "t", " ", "l", "i", "a", "b", "i", "l", "i", "t", "i", "e", "s">>, <<"n", "o", "n", " ", "c", "u", "r", "r", "e", "n", "t", " ", "l", "i", "a", "b", "i", "l", "i", "t", "i", "e", "s">>,
                        <<"n", "o", "n", "-", "c", "u", "r", "r", "e", "n", "t", " ", "l", "i", "a", "b", "i", "l", "i", "t", "y">> >>],
       [field |-> "total_liabilities",
        keywords |-> << <<"t", "o", "t", "a", "l", " ", "l", "i", "a", "b", "i", "l", "i", "t", "i", "e", "s">>, <<"t", "o", "t", "a", "l", " ", "l", "i", "a", "b", "i", "l", "i", "t", "y">> >>],
       [field |-> "total_assets", keywords |-> << <<"t", "o", "t", "a", "l", " ", "a", "s", "s", "e", "t", "s">>, <<"t", "o", "t", "a", "l", " ", "a", "s", "s", "e", "t">> >>],
       [field |-> "total_equity",
        keywords |-> << <<"t", "o", "t", "a", "l", " ", "e", "q", "u", "i", "t", "y">>, <<"e", "q", "u", "i", "t", "y">>, <<"s", "h", "a", "r", "e", "h", "o", "l", "d", "e", "r", "s", " ", "f", "u", "n", "d", "s">>,
                        <<"s", "h", "a", "r", "e", "h", "o", "l", "d", "e", "r", "s", " ", "e", "q", "u", "i", "t", "y">> >>],
       [field |-> "receivables",
        keywords |-> << <<"t", "r", "a", "d", "e", " ", "r", "e", "c", "e", "i", "v", "a", "b", "l", "e", "s">>, <<"r", "e", "c", "e", "i", "v", "a", "b", "l", "e", "s">>, <<"r", "e", "c", "e", "i", "v", "a", "b", "l", "e">> >>],
       [field |-> "payables",
        keywords |-> << <<"t", "r", "a", "d", "e", " ", "p", "a", "y", "a", "b", "l", "e", "s">>, <<"p", "a", "y", "a", "b", "l", "e", "s">>, <<"p", "a", "y", "a", "b", "l", "e">> >>],
       [field |-> "revenue",
        keywords |-> << <<"r", "e", "v", "e", "n", "u", "e">>, <<"t", "o", "t", "a", "l", " ", "i", "n", "c", "o", "m", "e">>, <<"i", "n", "c", "o", "m", "e", " ", "f", "r", "o", "m", " ", "o", "p", "e", "r", "a", "t", "i", "o", "n", "s">>,
                        <<"r", "e", "v", "e", "n", "u", "e", " ", "f", "r", "o", "m", " ", "o", "p", "e", "r", "a", "t", "i", "o", "n", "s">> >>],
       [field |-> "cogs",
        keywords |-> << <<"c", "o", "s", "t", " ", "o", "f", " ", "m", "a", "t", "e", "r", "i", "a", "l", "s">>, <<"c", "o", "s", "t", " ", "o", "f", " ", "g", "o", "o", "d", "s", " ", "s", "o", "l", "d">>, <<"c", "o", "s", "t", " ", "o", "f", " ", "s", "a", "l", "e", "s">>,
                        <<"c", "o", "g", "s">> >>] >>

NotFound ==
    [cash |-> Absent, inventory |-> Absent, current_liabilities |-> Absent,
     non_current_liabilities |-> Absent, total_liabilities |-> Absent,
     total_assets |-> Absent, total_equity |-> Absent, receivables |-> Absent,
     payables |-> Absent, revenue |-> Absent, cogs |-> Absent]

(* app.py lines 1646-1659 from candidate c on: a candidate gives its first
   number to the first field, in the order of the mapping, that is not yet
   found and has a keyword in the candidate's text *)
RECURSIVE FoundByKeyword(_, _, _)
FoundByKeyword(candidates, c, found) ==
    IF c > Len(candidates) THEN found
    ELSE LET hits == {m \in 1..Len(debug_mapping) :
                        /\ found[debug_mapping[m].field] = Absent
                        /\ \E k \in 1..Len(debug_mapping[m].keywords) :
                               Contains(candidates[c].text, debug_mapping[m].keywords[k])}
         IN  FoundByKeyword(candidates, c + 1,
                 IF hits = {} THEN found
                 ELSE [found EXCEPT ![debug_mapping[Min(hits)].field] =
                                        candidates[c].numbers[1]])

(* max() of the numbers of the candidates in the set C; None for none *)
LargestNumber(candidates, C) ==
    LET all == UNION {{candidates[c].numbers[i] : i \in 1..Len(candidates[c].numbers)}
                      : c \in C}
    IN  IF all = {} THEN None
        ELSE CHOOSE x \in all : \A y \in all : ~Less(x, y)

(* app.py debug_analyze_session, lines 1631-1689, on the numeric candidates
   of the document: the fields found, the rows and the profit-and-loss
   figures built from them, and the ratios calculate_financial_ratios
   returns for these *)
debug_analyze_session(candidates) ==
    LET all          == 1..Len(candidates)
        on_assets    == {c \in all : Contains(candidates[c].text, <<"a", "s", "s", "e", "t">>)}
        Either(a, b) == IF a # None THEN a ELSE b
        WithFallback(by_keyword, largest) ==
            IF by_keyword.total_assets = Absent /\ largest # None
            THEN [by_keyword EXCEPT !.total_assets = largest]
            ELSE by_keyword
        Analyzed(found, x, pl_given) ==
            [found |-> found,
             ratios |-> calculate_financial_ratios(Financials(x, "rows"),
                                                   PLFigures(x, "rows", pl_given), pl_given)]
        Rows(found) ==
            LET get(f) == IF found[f] = Absent THEN None ELSE found[f]
            IN  Analyzed(found,
                    [total_assets |-> get("total_assets"),
                     current_assets |-> PyOr(get("cash"), PyOr(get("inventory"), None)),
                     non_current_assets |-> None,
                     total_liabilities |-> get("total_liabilities"),
                     current_liabilities |-> get("current_liabilities"),
                     non_current_liabilities |-> None,
                     equity |-> get("total_equity"),
                     share_capital |-> None,
                     inventory |-> None, receivables |-> None,
                     cash |-> get("cash"),
                     payables |-> None,
                     revenue |-> get("revenue"), cogs |-> get("cogs"),
                     operating_income |-> None, net_income |-> None,
                     interest_expense |-> None, ebitda |-> None],
                    found.revenue # Absent \/ found.cogs # Absent)
    IN  Rows(WithFallback(FoundByKeyword(candidates, 1, NotFound),
                          Either(LargestNumber(candidates, on_assets),
                                 LargestNumber(candidates, all))))

(* ---------------- field extraction of the ratio engine ---------------- *)

(* " ".join(s.split()) of the lowered description with "\n" read as " " *)
CollapseBlanks(T) ==
    LET S == Strip(LowerStr(T), Whitespace)
    IN  SelectSeq([i \in 1..Len(S) |->
                      IF S[i] \notin Whitespace THEN S[i]
                      ELSE IF S[i - 1] \in Whitespace THEN "" ELSE " "],
                  LAMBDA c : c # "")

(* the first n numbers of all_numbers, none left out *)
EveryNumber(all_numbers, n) == SubSeq(all_numbers, 1, n)

(* app.py lines 772-776: a number is kept when it differs by more than 0.1
   from the number kept before it *)
RECURSIVE UniqueNumbers(_, _)
UniqueNumbers(all_numbers, n) ==
    LET Appended(kept, v) ==
            IF kept = <<>> \/ Less(Rat(1, 10), Sub(v, kept[Len(kept)]))
                           \/ Less(Rat(1, 10), Sub(kept[Len(kept)], v))
            THEN Append(kept, v) ELSE kept
    IN  IF n = 0 THEN <<>>
        ELSE Appended(UniqueNumbers(all_numbers, n - 1), all_numbers[n])

(* app.py lines 736-777 for rows that are dicts of one description without
   digits and of numeric cells: the description is the particulars unless it
   is 3 characters or shorter or holds "note"; a row without particulars or
   without numbers is left out *)
NormalizedData(rows) ==
    LET Described(row) ==
            /\ IsNone(parse_number(row.particulars))
            /\ Len(row.particulars) > 3
            /\ ~Contains(row.particulars, <<"n", "o", "t", "e">>)
            /\ Len(CollapseBlanks(row.particulars)) > 1
        Kept == SelectSeq(rows, LAMBDA row : Described(row) /\ row.values # <<>>)
    IN  [i \in 1..Len(Kept) |->
            [particulars |-> CollapseBlanks(Kept[i].particulars),
             values |-> UniqueNumbers(Kept[i].values, Len(Kept[i].values))]]

(* app.py find_value(keywords), exact_match=False, from row i on with the
   best match so far: every row that holds all keywords overwrites the best
   match with its last value; a row that holds only some of them counts
   while there is no match yet *)
RECURSIVE find_value(_, _, _, _)
find_value(normalized_data, keywords, i, best_match) ==
    LET p      == normalized_data[i].particulars
        values == normalized_data[i].values
        Holds(k) == Contains(p, keywords[k])
        partial == IF Len(values) >= 2
                   THEN IF Less(values[1], Int2Num(200)) /\ Less(Int2Num(500), values[2])
                        THEN values[2] ELSE values[1]
                   ELSE values[Len(values)]
        Then(best) == find_value(normalized_data, keywords, i + 1, best)
    IN  IF i > Len(normalized_data) THEN best_match
        ELSE IF \A k \in 1..Len(keywords) : Holds(k) THEN Then(values[Len(values)])
        ELSE IF (\E k \in 1..Len(keywords) : Holds(k)) /\ IsNone(best_match)
             THEN Then(partial)
        ELSE Then(best_match)

(* app.py lines 819-833 *)
SEARCH_TERMS ==
    [total_assets |-> << << <<"t", "o", "t", "a", "l", " ", "a", "s", "s", "e", "t", "s">> >> >>,
     current_assets |-> << << <<"t", "o", "t", "a", "l", " ", "c", "u", "r", "r", "e", "n", "t", " ", "a", "s", "s", "e", "t", "s">> >>, << <<"c", "u", "r", "r", "e", "n", "t", " ", "a", "s", "s", "e", "t", "s">> >> >>,
     non_current_assets |-> << << <<"t", "o", "t", "a", "l", " ", "n", "o", "n", "-", "c", "u", "r", "r", "e", "n", "t", " ", "a", "s", "s", "e", "t", "s">> >>,
                               << <<"n", "o", "n", "-", "c", "u", "r", "r", "e", "n", "t", " ", "a", "s", "s", "e", "t", "s">> >>, << <<"f", "i", "x", "e", "d", " ", "a", "s", "s", "e", "t", "s">> >> >>,
     total_liabilities |-> << << <<"t", "o", "t", "a", "l", " ", "l", "i", "a", "b", "i", "l", "i", "t", "i", "e", "s">> >> >>,
     current_liabilities |-> << << <<"t", "o", "t", "a", "l", " ", "c", "u", "r", "r", "e", "n", "t", " ", "l", "i", "a", "b", "i", "l", "i", "t", "i", "e", "s">> >>,
                                << <<"c", "u", "r", "r", "e", "n", "t", " ", "l", "i", "a", "b", "i", "l", "i", "t", "i", "e", "s">> >> >>,
     non_current_liabilities |-> << << <<"t", "o", "t", "a", "l", " ", "n", "o", "n", "-", "c", "u", "r", "r", "e", "n", "t", " ", "l", "i", "a", "b", "i", "l", "i", "t", "i", "e", "s">> >>,
                                    << <<"n", "o", "n", "-", "c", "u", "r", "r", "e", "n", "t", " ", "l", "i", "a", "b", "i", "l", "i", "t", "i", "e", "s">> >>,
                                    << <<"l", "o", "n", "g", "-", "t", "e", "r", "m", " ", "l", "i", "a", "b", "i", "l", "i", "t", "i", "e", "s">> >> >>,
     equity |-> << << <<"t", "o", "t", "a", "l", " ", "e", "q", "u", "i", "t", "y">> >>, << <<"e", "q", "u", "i", "t", "y">> >>, << <<"s", "h", "a", "r", "e", "h", "o", "l", "d", "e", "r", " ", "f", "u", "n", "d", "s">> >>,
                   << <<"s", "h", "a", "r", "e", "h", "o", "l", "d", "e", "r", "s", "'", " ", "f", "u", "n", "d", "s">> >> >>,
     share_capital |-> << << <<"s", "h", "a", "r", "e", " ", "c", "a", "p", "i", "t", "a", "l">> >>, << <<"e", "q", "u", "i", "t", "y", " ", "s", "h", "a", "r", "e", " ", "c", "a", "p", "i", "t", "a", "l">> >> >>,
     reserves |-> << << <<"r", "e", "s", "e", "r", "v", "e", "s", " ", "a", "n", "d", " ", "s", "u", "r", "p", "l", "u", "s">> >>, << <<"r", "e", "t", "a", "i", "n", "e", "d", " ", "e", "a", "r", "n", "i", "n", "g", "s">> >>,
                     << <<"r", "e", "s", "e", "r", "v", "e", "s">> >> >>,
     inventory |-> << << <<"i", "n", "v", "e", "n", "t", "o", "r", "i", "e", "s">> >> >>,
     receivables |-> << << <<"t", "r", "a", "d", "e", " ", "r", "e", "c", "e", "i", "v", "a", "b", "l", "e", "s">> >>, << <<"a", "c", "c", "o", "u", "n", "t", "s", " ", "r", "e", "c", "e", "i", "v", "a", "b", "l", "e">> >> >>,
     cash |-> << << <<"c", "a", "s", "h", " ", "a", "n", "d", " ", "c", "a", "s", "h", " ", "e", "q", "u", "i", "v", "a", "l", "e", "n", "t", "s">> >>, << <<"c", "a", "s", "h", " ", "a", "n", "d", " ", "b", "a", "n", "k", " ", "b", "a", "l", "a", "n", "c", "e", "s">> >>,
                 << <<"c", "a", "s", "h">> >> >>,
     payables |-> << << <<"t", "r", "a", "d", "e", " ", "p", "a", "y", "a", "b", "l", "e", "s">> >>, << <<"a", "c", "c", "o", "u", "n", "t", "s", " ", "p", "a", "y", "a", "b", "l", "e">> >> >>]

(* app.py lines 852-858: the value of the first keyword-set that finds
   one, None when none does *)
RECURSIVE TermValue(_, _, _)
TermValue(normalized_data, term_sets, t) ==
    LET Or(value) == IF ~IsNone(value) THEN value
                     ELSE TermValue(normalized_data, term_sets, t + 1)
    IN  IF t > Len(term_sets) THEN None
        ELSE Or(find_value(normalized_data, term_sets[t], 1, None))

(* app.py lines 835-873: the fields of the structured source when there is
   one, else the fields found in the rows *)
GatheredFinancials(normalized_data, mistral_financials) ==
    IF mistral_financials.given
    THEN [total_assets |-> mistral_financials.total_assets,
          current_assets |-> mistral_financials.current_assets,
          non_current_assets |-> mistral_financials.property_plant_equipment,
          total_liabilities |-> mistral_financials.total_liabilities,
          current_liabilities |-> mistral_financials.current_liabilities,
          non_current_liabilities |-> mistral_financials.long_term_borrowings,
          equity |-> mistral_financials.total_equity,
          share_capital |-> None,
          reserves |-> None,
          inventory |-> mistral_financials.inventories,
          receivables |-> mistral_financials.trade_receivables,
          cash |-> mistral_financials.cash_and_equivalents,
          payables |-> mistral_financials.trade_payables]
    ELSE [key \in DOMAIN SEARCH_TERMS |-> TermValue(normalized_data, SEARCH_TERMS[key], 1)]

(* app.py lines 875-893 and 1042-1082: the figures of the structured source,
   then, with a profit_loss_data dict, every figure read again from the
   dict as  find_pl_value(first path) or find_pl_value(second path) *)
GatheredFigures(profit_loss_data, mistral_financials) ==
    LET from_mistral ==
            IF mistral_financials.given
            THEN [revenue |-> mistral_financials.revenue, cogs |-> None,
                  operating_income |-> None,
                  net_income |-> mistral_financials.net_profit,
                  ebit |-> mistral_financials.ebitda,
                  interest_expense |-> mistral_financials.interest_expense,
                  ebitda |-> mistral_financials.ebitda]
            ELSE [revenue |-> None, cogs |-> None, operating_income |-> None,
                  net_income |-> None, ebit |-> None, interest_expense |-> None,
                  ebitda |-> None]
        operating_income == PyOr(profit_loss_data.profitBeforeExceptionalItemsAndTax,
                                 profit_loss_data.operatingProfit)
    IN  IF ~profit_loss_data.given THEN from_mistral
        ELSE [revenue |-> PyOr(profit_loss_data.revenueFromOperations,
                               profit_loss_data.totalIncome),
              cogs |-> PyOr(profit_loss_data.costOfMaterialsConsumed, None),
              operating_income |-> operating_income,
              net_income |-> PyOr(profit_loss_data.netProfit, None),
              ebit |-> PyOr(profit_loss_data.profitBeforeExceptionalItemsAndTax,
                            operating_income),
              interest_expense |-> PyOr(profit_loss_data.financeCosts, None),
              ebitda |-> PyOr(profit_loss_data.ebitda, None)]

(* app.py calculate_financial_ratios(balance_sheet_data, profit_loss_data,
   mistral_financials) as a whole: a balance_sheet_data that cannot be
   iterated makes line 738 raise, and the except of line 1318 turns that
   into the error response; a string is iterated character by character
   and gives no row.  The response carries the fields and figures the
   ratios were computed from. *)
calculate_financial_ratios_call(balance_sheet_data, profit_loss_data, mistral_financials) ==
    LET From(financials, figures) ==
            [exc |-> FALSE, error |-> FALSE,
             financials |-> financials, figures |-> figures,
             ratios |-> calculate_financial_ratios(financials, figures,
                                                   profit_loss_data.given)]
        Of(normalized_data) ==
            From(GatheredFinancials(normalized_data, mistral_financials),
                 GatheredFigures(profit_loss_data, mistral_financials))
    IN  IF balance_sheet_data.kind = "number" THEN [exc |-> FALSE, error |-> TRUE]
        ELSE Of(IF balance_sheet_data.kind = "rows"
                THEN NormalizedData(balance_sheet_data.rows) ELSE <<>>)

(* ---------------- row normalization of the ratio engine ---------------- *)

(* [\(\-]?\d+(?:,\d+)*\.?\d* matched at index i: the index after the match,
   0 when it does not match *)
SignedNumberEnd(T, i) ==
    LET IsDigitAt(j) == j <= Len(T) /\ IsDigit(T[j])
        RECURSIVE Groups(_)
        Groups(e) == IF e <= Len(T) /\ T[e] = "," /\ IsDigitAt(e + 1)
                     THEN Groups(Span(T, e + 1, DigitSet, FALSE)) ELSE e
        Fraction(e) == Span(T, IF e <= Len(T) /\ T[e] = "." THEN e + 1 ELSE e,
                            DigitSet, FALSE)
        From(first) == IF IsDigitAt(first)
                       THEN Fraction(Groups(Span(T, first, DigitSet, FALSE))) ELSE 0
    IN  IF T[i] \in {"(", "-"} /\ IsDigitAt(i + 1) THEN From(i + 1) ELSE From(i)

(* app.py parse_all_numbers(val), lines 712-732, for a string: every match of
   the token from index i of s on, as a number; a token is negated when it
   starts with "-" or when s holds it between parentheses somewhere *)
RECURSIVE NumbersFrom(_, _)
NumbersFrom(s, i) ==
    LET Number(b, e) ==
            LET num_str     == Strip(SubSeq(s, b, e - 1), {"(", ")"})
                is_negative == num_str[1] = "-"
                               \/ Contains(s, <<"(">> \o num_str \o <<")">>)
                num         == PyFloat(Drop(num_str, {","}))
            IN  IF ~IsNum(num) THEN <<>>
                ELSE IF is_negative THEN <<Neg(num)>> ELSE <<num>>
        At(e) == IF e = 0 THEN NumbersFrom(s, i + 1)
                 ELSE Number(i, e) \o NumbersFrom(s, e)
    IN  IF i > Len(s) THEN <<>> ELSE At(SignedNumberEnd(s, i))

parse_all_numbers(val) == NumbersFrom(Strip(val, Whitespace), 1)

(* app.py lines 745-765 for the cells of one row from cell i on: the
   numbers gathered so far and the description chosen so far.  A cell is
   first given to parse_number; only a cell parse_number makes nothing of is
   given to parse_all_numbers and considered as the description *)
RECURSIVE RowScan(_, _, _, _)
RowScan(row, i, all_numbers, particulars_value) ==
    LET v    == row[i]
        num  == parse_number(v)
        good == /\ Len(v) > 3
                /\ ~Contains(LowerStr(v), <<"n", "o", "t", "e">>)
                /\ (particulars_value = <<>> \/ Len(v) > Len(particulars_value))
    IN  IF i > Len(row) THEN [all_numbers |-> all_numbers,
                              particulars_value |-> particulars_value]
        ELSE IF IsNum(num) THEN RowScan(row, i + 1, Append(all_numbers, num),
                                        particulars_value)
        ELSE RowScan(row, i + 1, all_numbers \o parse_all_numbers(v),
                     IF good THEN v ELSE particulars_value)

(* app.py lines 767-777 for one row of string cells: the normalized row, or
   nothing when the row has no description or no number *)
NormalizedRow(row) ==
    LET Cleaned(scan) ==
            IF scan.particulars_value # <<>> /\ scan.all_numbers # <<>>
               /\ Len(CollapseBlanks(scan.particulars_value)) > 1
            THEN << [particulars |-> CollapseBlanks(scan.particulars_value),
                     values |-> UniqueNumbers(scan.all_numbers, Len(scan.all_numbers))] >>
            ELSE <<>>
    IN  Cleaned(RowScan(row, 1, <<>>, <<>>))

(* app.py lines 736-777: normalized_data of a list of rows of string cells *)
RECURSIVE NormalizedRows(_)
NormalizedRows(balance_sheet_data) ==
    IF balance_sheet_data = <<>> THEN <<>>
    ELSE NormalizedRow(Head(balance_sheet_data)) \o NormalizedRows(Tail(balance_sheet_data))

(* -------------------------- Validation gate --------------------------- *)

(* JSON-like values: [t |-> "none"], [t |-> "num", v |-> number],
   [t |-> "str", s |-> characters], and [t |-> "list" or "dict", items |->
   the elements, or the values of the dict in their order] *)
NoneValue == [t |-> "none"]

(* the call that would have returned the value raised instead *)
RaisedValue == [t |-> "raise"]

NumValue(i) == [t |-> "num", v |-> Int2Num(i)]

StrValue(s) == [t |-> "str", s |-> s]

ListValue(items) == [t |-> "list", items |-> items]

DictValue(items) == [t |-> "dict", items |-> items]

IsContainer(x) == x.t \in {"list", "dict"}

(* bool(x) of such a value *)
TruthyValue(x) ==
    CASE x.t \in {"none", "raise"} -> FALSE
      [] x.t = "num" -> ~IsZero(x.v)
      [] x.t = "str" -> x.s # <<>>
      [] OTHER -> x.items # <<>>

(* app.py try_parse_numeric(x), lines 2481-2497 *)
try_parse_numeric(x) ==
    LET Or(v) == IF IsNum(v) THEN v ELSE FloatOfDigits(x.s)
    IN  CASE x.t = "num" -> x.v
          [] x.t = "str" -> Or(parse_number(x.s))
          [] OTHER -> None

(* n is not None and n > 0 *)
IsPositive(n) == IsNum(n) /\ n.n > 0

(* the threshold of line 2523 *)
MinNumericCount == 3

(* app.py walk(obj), lines 2501-2518, from element i of obj on: what it
   adds to numeric_count *)
RECURSIVE walk(_, _)
walk(obj, i) ==
    IF ~IsContainer(obj) \/ i > Len(obj.items) THEN 0
    ELSE (IF IsPositive(try_parse_numeric(obj.items[i])) THEN 1
          ELSE walk(obj.items[i], 1))
         + walk(obj, i + 1)

(* lines 2471-2478: a list is flattened by one level *)
RECURSIVE FlatData(_, _)
FlatData(items, i) ==
    IF i > Len(items) THEN <<>>
    ELSE (IF items[i].t = "list" THEN items[i].items ELSE <<items[i]>>)
         \o FlatData(items, i + 1)

(* the plausibility check with threshold least *)
ValidatedWith(balance_data, least) ==
    LET flat_data == IF balance_data.t = "list" THEN FlatData(balance_data.items, 1)
                     ELSE <<balance_data>>
    IN  TruthyValue(balance_data) /\ walk(ListValue(flat_data), 1) >= least

validate_two_values(balance_data) == ValidatedWith(balance_data, MinNumericCount - 1)

(* app.py validate_balance_sheet_data(balance_data) *)
validate_balance_sheet_data(balance_data) == ValidatedWith(balance_data, MinNumericCount)

(* app.py upload_pdf, lines 1779-1900, from what the LLM extraction returns
   (RaisedValue when it raises): the validation of lines 1850-1855 stands in the
   except clause of line 1845, after balance_sheet_data = None, and the
   except clause of line 1856 follows an except clause for the same
   exception class, so neither the validation nor the keyword-based
   fallback acts.  The result is what the session holds afterwards. *)
upload_pdf(kimi) ==
    LET Stored(balance_sheet_data) ==
            IF TruthyValue(balance_sheet_data)
            THEN [balance_sheet_data |-> balance_sheet_data,
                  ratios_of |-> balance_sheet_data, method |-> "llm"]
            ELSE [balance_sheet_data |-> NoneValue, ratios_of |-> NoneValue,
                  method |-> "none"]
    IN  Stored(IF kimi = RaisedValue THEN NoneValue ELSE kimi)

(* app.py financial_ratio, lines 2645-2990, for a session whose store holds
   neither a balance sheet nor ratios: the Mistral path when there are a key
   and a PDF, then the deterministic extraction, then the on-demand LLM
   extraction behind the validation, then the ratios of what the store
   holds.  The result is what the session holds afterwards. *)
financial_ratio(key, pdf_path, mistral_data, parsed_rows, bs) ==
    LET Holds(data, method) ==
            [balance_sheet_data |-> data, ratios_of |-> data, method |-> method]
        gated == IF bs.t \notin {"raise", "none"} /\ ~validate_balance_sheet_data(bs)
                 THEN NoneValue ELSE bs
    IN  IF key /\ pdf_path /\ TruthyValue(mistral_data)
        THEN Holds(mistral_data, "mistral")
        ELSE IF pdf_path /\ TruthyValue(parsed_rows) THEN Holds(parsed_rows, "deterministic")
        ELSE IF pdf_path /\ TruthyValue(gated) THEN Holds(gated, "on_demand")
        ELSE Holds(NoneValue, "none")

(* --------------------- percentage normalization ----------------------- *)

(* the category of each ratio of a grouped ratio set *)
SectionOf ==
    [current_ratio |-> "liquidity_ratios", debt_ratio |-> "solvency_ratios",
     gross_margin |-> "profitability_ratios", net_margin |-> "profitability_ratios",
     roe |-> "profitability_ratios", net_profit_margin |-> "dupont_analysis",
     roe_dupont |-> "dupont_analysis"]

(* app.py copy_section, lines 3087-3102, for one value: a value of the
   profitability section whose magnitude exceeds 1 is divided by 100; every
   number is rounded to 4 places *)
copy_section(val, section_name) ==
    IF ~IsNum(val) THEN val
    ELSE IF (Less(Int2Num(1), val) \/ Less(val, Int2Num(-1)))
            /\ section_name = "profitability_ratios"
         THEN Round(Quot(val, Int2Num(100)), 4)
    ELSE Round(val, 4)

(* app.py flatten_ratios(grouped), lines 3077-3118: the sections are copied
   through copy_section, the DuPont figures are rounded only *)
flatten_ratios(grouped) ==
    [k \in DOMAIN grouped |->
        IF SectionOf[k] = "dupont_analysis"
        THEN (IF IsNum(grouped[k]) THEN Round(grouped[k], 4) ELSE grouped[k])
        ELSE copy_section(grouped[k], SectionOf[k])]

(* app.py round_ratios, lines 2760-2767 *)
round_ratios(obj) == [k \in DOMAIN obj |-> IF IsNum(obj[k]) THEN Round(obj[k], 2) ELSE obj[k]]

(* app.py financial_ratio: the ratios of the response on each path that
   returns ratios: the ratios stored at upload time (lines 2647-2650), the
   Mistral path (lines 2756-2778), the deterministic extraction (lines
   2805-2807) and the path through flatten_ratios (lines 3145-3164) *)
response_ratios(path, grouped) ==
    CASE path = "precomputed" -> grouped
      [] path = "mistral" -> round_ratios(grouped)
      [] path = "deterministic" -> grouped
      [] path = "flattened" -> flatten_ratios(grouped)

(* ---------------------- extraction from text -------------------------- *)

(* the pieces the statement lines are put together from *)
Labels ==
    { [text |-> <<"C", "a", "s", "h">>, keywords |-> << <<"c", "a", "s", "h">> >>],
      [text |-> <<"T", "o", "t", "a", "l", " ", "A", "s", "s", "e", "t", "s">>,
       keywords |-> << <<"t", "o", "t", "a", "l", " ", "a", "s", "s", "e", "t", "s">>, <<"a", "s", "s", "e", "t", "s", " ", "t", "o", "t", "a", "l">>,
                       <<"t", "o", "t", "a", "l", " ", "n", "o", "n", "-", "c", "u", "r", "r", "e", "n", "t", " ", "a", "n", "d", " ", "c", "u", "r", "r", "e", "n", "t", " ", "a", "s", "s", "e", "t", "s">> >>] }

Separators ==
    { <<" ">>, <<" ", ".", ".", ".", " ">>, <<":", " ">>, <<" ", "(", "N", "o", "t", "e", " ", "4", ")", " ">>, << "nbsp" >>, <<"\n">> }

Headings == { <<>>, <<"P", "a", "r", "t", "i", "c", "u", "l", "a", "r", "s", " ", "N", "o", "t", "e", " ", "2", "0", "2", "4", " ", "2", "0", "2", "3", "\n">> }

AmountTokens ==
    { <<"4">>, <<"2", "0", "0", "0", "0", "0">>, <<"1", "5", "0", "0", "0", "0">>, <<"1", "0", ",", "5", "3", "2", ".", "8", "1">>, <<"(", "1", ",", "2", "3", "4", ")">>, <<"$", "5", "0", "0">>, <<"-">> }

MaxTokens == 3

TokenRows == UNION { [1..n -> AmountTokens] : n \in 1..MaxTokens }

RECURSIVE Join(_, _)
Join(parts, sep) ==
    IF parts = <<>> THEN <<>>
    ELSE IF Len(parts) = 1 THEN parts[1]
    ELSE parts[1] \o sep \o Join(Tail(parts), sep)

(* one statement line: the label, what stands between the label and the
   first column, and the columns *)
Line(label, sep, toks) == label \o sep \o Join(toks, <<" ">>)

(* the block of the end-to-end scenario: eight labels, one amount each *)
BlockLabels ==
    << <<"T", "o", "t", "a", "l", " ", "c", "u", "r", "r", "e", "n", "t", " ", "a", "s", "s", "e", "t", "s">>, <<"I", "n", "v", "e", "n", "t", "o", "r", "y">>, <<"T", "o", "t", "a", "l", " ", "c", "u", "r", "r", "e", "n", "t", " ", "l", "i", "a", "b", "i", "l", "i", "t", "i", "e", "s">>,
       <<"T", "o", "t", "a", "l", " ", "a", "s", "s", "e", "t", "s">>, <<"T", "o", "t", "a", "l", " ", "e", "q", "u", "i", "t", "y">>, <<"T", "o", "t", "a", "l", " ", "l", "i", "a", "b", "i", "l", "i", "t", "i", "e", "s">>, <<"R", "e", "v", "e", "n", "u", "e">>,
       <<"C", "o", "s", "t", " ", "o", "f", " ", "g", "o", "o", "d", "s", " ", "s", "o", "l", "d">> >>

ExampleAmounts ==
    << <<"1", ",", "0", "0", "0", ",", "0", "0", "0">>, <<"2", "0", "0", ",", "0", "0", "0">>, <<"4", "0", "0", ",", "0", "0", "0">>, <<"2", ",", "0", "0", "0", ",", "0", "0", "0">>, <<"8", "0", "0", ",", "0", "0", "0">>,
       <<"1", ",", "2", "0", "0", ",", "0", "0", "0">>, <<"1", ",", "5", "0", "0", ",", "0", "0", "0">>, <<"9", "0", "0", ",", "0", "0", "0">> >>

OtherAmounts == { <<"0">>, <<"2", "5", "0", ".", "7", "5">>, <<"(", "5", "0", "0", ")">>, <<"1", ",", "2", "0", "0">> }

MaxAltered == 1

(* the example amounts with at most MaxAltered of them replaced *)
BlockAmounts ==
    UNION {{[i \in 1..8 |-> IF i \in S THEN g[i] ELSE ExampleAmounts[i]]
            : g \in [S -> OtherAmounts]} : S \in SmallSubsets(1..8, MaxAltered)}

Block(amounts) ==
    Join([i \in 1..8 |-> BlockLabels[i] \o <<" ">> \o amounts[i]], <<"\n">>)

(* the lines simulate_extract_balance_sheet is run on: a label that leads to
   a key of the result, an optional note index, the latest-year amount and
   the previous-year column *)
StatementLabels ==
    { [text |-> <<"C", "a", "s", "h", " ", "a", "n", "d", " ", "c", "a", "s", "h", " ", "e", "q", "u", "i", "v", "a", "l", "e", "n", "t", "s">>, section |-> "assets",
       key |-> "cash_and_equivalents"],
      [text |-> <<"T", "o", "t", "a", "l", " ", "a", "s", "s", "e", "t", "s">>, section |-> "assets", key |-> "total_assets"],
      [text |-> <<"I", "n", "v", "e", "n", "t", "o", "r", "i", "e", "s">>, section |-> "assets", key |-> "inventories"],
      [text |-> <<"P", "r", "o", "p", "e", "r", "t", "y", ",", " ", "p", "l", "a", "n", "t", " ", "a", "n", "d", " ", "e", "q", "u", "i", "p", "m", "e", "n", "t">>, section |-> "assets",
       key |-> "property_plant_equipment"],
      [text |-> <<"T", "o", "t", "a", "l", " ", "e", "q", "u", "i", "t", "y">>, section |-> "equity", key |-> "total_equity"],
      [text |-> <<"R", "e", "v", "e", "n", "u", "e", " ", "f", "r", "o", "m", " ", "o", "p", "e", "r", "a", "t", "i", "o", "n", "s">>, section |-> "p_and_l", key |-> "revenue"],
      [text |-> <<"N", "e", "t", " ", "p", "r", "o", "f", "i", "t">>, section |-> "p_and_l", key |-> "net_profit"],
      [text |-> <<"(", "b", ")", " ", "T", "r", "a", "d", "e", " ", "p", "a", "y", "a", "b", "l", "e", "s", ",", " ", "n", "e", "t">>, section |-> "liabilities",
       key |-> "trade_payables"] }

StatementHeadings == { <<>>, <<"B", "a", "l", "a", "n", "c", "e", " ", "S", "h", "e", "e", "t", " ", "a", "s", " ", "a", "t", " ", "3", "1", " ", "M", "a", "r", "c", "h", " ", "2", "0", "2", "4", "\n">> }

NoteIndexes == { <<>>, <<"4">>, <<"1", "2">> }

LatestAmounts == { <<"2", "0", "0", "0", "0", "0">>, <<"1", "0", ",", "5", "3", "2", ".", "8", "1">>, <<"(", "6", "0", "0", ")">>, <<"5", " ", "c", "r">>, <<"-", "5", "0", "0">> }

PreviousAmounts == { <<>>, <<"1", "5", "0", "0", "0", "0">>, <<"9", ",", "3", "5", "2", ".", "4", "4">>, <<"(", "5", "5", "0", ")">>, <<"4", " ", "c", "r">>, <<"-">> }

StatementLine(a) ==
    a.heading \o a.label \o <<" ">>
        \o Join(SelectSeq(<<a.note, a.latest, a.previous>>, LAMBDA c : c # <<>>), <<" ">>)

(* the documents debug_analyze_session is run on: the lines of the pool
   that the document holds, in the order of the pool *)
DocumentLines ==
    << <<"T", "o", "t", "a", "l", " ", "a", "s", "s", "e", "t", "s", " ", "2", ",", "0", "0", "0">>, <<"O", "t", "h", "e", "r", " ", "n", "o", "n", "-", "c", "u", "r", "r", "e", "n", "t", " ", "a", "s", "s", "e", "t", "s", " ", "3", ",", "5", "0", "0">>,
       <<"T", "o", "t", "a", "l", " ", "l", "i", "a", "b", "i", "l", "i", "t", "i", "e", "s", " ", "1", ",", "2", "0", "0">>, <<"T", "o", "t", "a", "l", " ", "e", "q", "u", "i", "t", "y", " ", "8", "0", "0">>,
       <<"C", "a", "s", "h", " ", "a", "n", "d", " ", "c", "a", "s", "h", " ", "e", "q", "u", "i", "v", "a", "l", "e", "n", "t", "s", " ", "4", " ", "5", "0", " ", "4", "0">>, <<"I", "n", "v", "e", "n", "t", "o", "r", "i", "e", "s", " ", "2", "0", "0">>,
       <<"R", "e", "v", "e", "n", "u", "e", " ", "f", "r", "o", "m", " ", "o", "p", "e", "r", "a", "t", "i", "o", "n", "s", " ", "1", ",", "5", "0", "0">>, <<"G", "o", "o", "d", "w", "i", "l", "l", " ", "(", "n", "o", "t", "e", " ", "7", ")", " ", "9", ",", "0", "0", "0">> >>

Document(held) ==
    Join(SelectSeq([i \in 1..Len(DocumentLines) |->
                        IF i \in held THEN DocumentLines[i] ELSE <<>>],
                   LAMBDA l : l # <<>>), <<"\n">>)

InitExtract ==
    \/ \E l \in Labels, h \in Headings, s \in Separators, toks \in TokenRows :
           Pending("find_amount",
                   [heading |-> h, label |-> l.text, sep |-> s, toks |-> toks,
                    keywords |-> l.keywords])
    \/ \E amounts \in BlockAmounts :
           Pending("calculate_financial_ratios_from_text", [amounts |-> amounts])
    \/ \E l \in StatementLabels, h \in StatementHeadings, n \in NoteIndexes,
           a \in LatestAmounts, b \in PreviousAmounts :
           Pending("simulate_extract_balance_sheet",
                   [heading |-> h, label |-> l.text, section |-> l.section, key |-> l.key,
                    note |-> n, latest |-> a, previous |-> b])
    \/ \E held \in SUBSET (1..Len(DocumentLines)) :
           Pending("debug_analyze_session", [held |-> held])

CallFindAmount ==
    /\ pc = "call" /\ fn = "find_amount"
    /\ Return(find_amount(args.heading \o Line(args.label, args.sep, args.toks),
                          args.keywords))

CallRatiosFromText ==
    /\ pc = "call" /\ fn = "calculate_financial_ratios_from_text"
    /\ Return(calculate_financial_ratios_from_text(Block(args.amounts)))

CallSimulateExtract ==
    /\ pc = "call" /\ fn = "simulate_extract_balance_sheet"
    /\ Return(simulate_extract_balance_sheet(StatementLine(args)))

CallDebugAnalyze ==
    /\ pc = "call" /\ fn = "debug_analyze_session"
    /\ \E candidates \in {extract_numeric_candidates(Document(args.held))} :
           Return(debug_analyze_session(candidates))

NextExtract ==
    \/ CallFindAmount
    \/ CallRatiosFromText
    \/ CallSimulateExtract
    \/ CallDebugAnalyze

SpecExtract == InitExtract /\ [][NextExtract]_vars

(* ------------------------- inputs of the parsers ----------------------- *)

(* mantissas small enough for a crore of them to stay within 32 bits *)
ScaledMantissas == { <<"2">>, <<"1", ".", "5">>, <<"1", "2", ".", "2", "5">> }

Gaps == { <<>>, <<" ">> }

Suffixes == { <<>>, <<"l", "a", "k", "h">>, <<"l", "a", "k", "h", "s">>, <<"L", "a", "k", "h">>, <<"c", "r", "o", "r", "e">>, <<"c", "r", "o", "r", "e", "s">>, <<"c", "r">>, <<"C", "R">> }

PlainTokens ==
    { <<"1", ",", "2", "3", "4", ".", "5", "6">>, <<"1", "0", ",", "5", "3", "2", ".", "8", "1">>, <<"0">>, <<>>, <<"-">>, <<"n", "i", "l">>, <<"N", "A">>, <<"1", ".", "2", ".", "3">>,
      <<",">>, <<".">>, <<"a", "b", "c">>, <<"1", "2", "%">>, <<"5", " ", "m", "i", "l", "l", "i", "o", "n">>, <<"emdash">> }

Wrappings == { "none", "parentheses", "minus", "rupee", "Rs", "blank" }

Wrapped(w, t) ==
    CASE w = "none" -> t
      [] w = "parentheses" -> <<"(">> \o t \o <<")">>
      [] w = "minus" -> <<"-">> \o t
      [] w = "rupee" -> <<"rupee">> \o t
      [] w = "Rs" -> <<"R", "s", ".", " ">> \o t
      [] w = "blank" -> <<" ">> \o t \o <<" ">>

Parsers == {"parse_number", "_parse_number_token", "_convert_indian_number_match"}

InitParser ==
    \E f \in Parsers, w \in Wrappings :
        \/ \E m \in ScaledMantissas, g \in Gaps, s \in Suffixes :
               Pending(f, [wrap |-> w, mantissa |-> m, gap |-> g, suffix |-> s])
        \/ \E t \in PlainTokens :
               Pending(f, [wrap |-> w, mantissa |-> t, gap |-> <<>>, suffix |-> <<>>])

Token(a) == Wrapped(a.wrap, a.mantissa \o a.gap \o a.suffix)

CallParseNumber ==
    /\ pc = "call" /\ fn = "parse_number"
    /\ Return(parse_number(Token(args)))

CallParseNumberToken ==
    /\ pc = "call" /\ fn = "_parse_number_token"
    /\ Return(parse_number_token(Token(args)))

CallConvertIndian ==
    /\ pc = "call" /\ fn = "_convert_indian_number_match"
    /\ Return(convert_indian_number_match(Token(args)))

NextParser == CallParseNumber \/ CallParseNumberToken \/ CallConvertIndian

SpecParser == InitParser /\ [][NextParser]_vars

(* --------------------- inputs of the field extraction ------------------ *)

(* rows of a balance sheet table: a description and the numeric columns *)
SheetRows ==
    { [particulars |-> <<"T", "o", "t", "a", "l", " ", "a", "s", "s", "e", "t", "s">>, values |-> <<Int2Num(2000)>>],
      [particulars |-> <<"T", "o", "t", "a", "l", " ", "a", "s", "s", "e", "t", "s", " ", "h", "e", "l", "d", " ", "f", "o", "r", " ", "s", "a", "l", "e">>, values |-> <<Int2Num(500)>>],
      [particulars |-> <<"T", "o", "t", "a", "l", " ", "c", "u", "r", "r", "e", "n", "t", " ", "a", "s", "s", "e", "t", "s">>,
       values |-> <<Int2Num(1000), Int2Num(900)>>],
      [particulars |-> <<"T", "o", "t", "a", "l", " ", " ", "C", "u", "r", "r", "e", "n", "t", "\n", "L", "i", "a", "b", "i", "l", "i", "t", "i", "e", "s">>, values |-> <<Int2Num(400)>>],
      [particulars |-> <<"C", "a", "s", "h", " ", "a", "n", "d", " ", "c", "a", "s", "h", " ", "e", "q", "u", "i", "v", "a", "l", "e", "n", "t", "s">>,
       values |-> <<Int2Num(50), Int2Num(50), Int2Num(40)>>],
      [particulars |-> <<"S", "e", "e", " ", "n", "o", "t", "e", " ", "4">>, values |-> <<Int2Num(4)>>] }

MaxRows == 2

RowLists == UNION { [1..n -> SheetRows] : n \in 0..MaxRows }

NoProfitLoss ==
    [given |-> FALSE, revenueFromOperations |-> None, totalIncome |-> None,
     costOfMaterialsConsumed |-> None, profitBeforeExceptionalItemsAndTax |-> None,
     operatingProfit |-> None, netProfit |-> None, ebitda |-> None, financeCosts |-> None]

ProfitLossData ==
    { NoProfitLoss,
      [NoProfitLoss EXCEPT !.given = TRUE, !.revenueFromOperations = Int2Num(3000),
                           !.costOfMaterialsConsumed = Int2Num(1800),
                           !.netProfit = Int2Num(300)],
      [NoProfitLoss EXCEPT !.given = TRUE, !.financeCosts = Int2Num(50)] }

NoMistral ==
    [given |-> FALSE, total_assets |-> None, current_assets |-> None,
     property_plant_equipment |-> None, total_liabilities |-> None,
     current_liabilities |-> None, long_term_borrowings |-> None, total_equity |-> None,
     inventories |-> None, trade_receivables |-> None, cash_and_equivalents |-> None,
     trade_payables |-> None, revenue |-> None, net_profit |-> None, ebitda |-> None,
     interest_expense |-> None]

StructuredStatement ==
    [NoMistral EXCEPT !.given = TRUE, !.total_assets = Int2Num(2000),
                      !.current_assets = Int2Num(1000), !.total_liabilities = Int2Num(1200),
                      !.current_liabilities = Int2Num(400), !.total_equity = Int2Num(800),
                      !.cash_and_equivalents = Int2Num(50), !.revenue = Int2Num(1500),
                      !.net_profit = Int2Num(120)]

MistralFinancials ==
    { StructuredStatement,
      [StructuredStatement EXCEPT !.cash_and_equivalents = None, !.ebitda = Int2Num(250),
                                  !.interest_expense = Int2Num(50)],
      [StructuredStatement EXCEPT !.total_assets = None, !.revenue = None] }

(* what is passed as balance_sheet_data: a list of rows, nothing, a string
   or a number *)
SheetInputs ==
    {[kind |-> "rows", rows |-> r] : r \in RowLists}
        \cup {[kind |-> k, rows |-> <<>>] : k \in {"none", "text", "number"}}

InitFields ==
    \E b \in SheetInputs, p \in ProfitLossData, m \in MistralFinancials \cup {NoMistral} :
        /\ m.given => (b.kind # "rows" \/ Len(b.rows) <= 1)
        /\ Pending("calculate_financial_ratios",
                   [balance_sheet_data |-> b, profit_loss_data |-> p,
                    mistral_financials |-> m])

CallRatiosOfInputs ==
    /\ pc = "call" /\ fn = "calculate_financial_ratios"
    /\ Return(calculate_financial_ratios_call(args.balance_sheet_data,
                                              args.profit_loss_data,
                                              args.mistral_financials))

NextFields == CallRatiosOfInputs

SpecFields == InitFields /\ [][NextFields]_vars

(* ------------------------ inputs of the gate --------------------------- *)

Leaves ==
    { NumValue(5), NumValue(7), NumValue(0), NoneValue, StrValue(<<"1", ",", "2", "3", "4">>),
      StrValue(<<"(", "5", "0", "0", ")">>), StrValue(<<"N", "o", "t", "e", " ", "4">>) }

MaxLeaves == 3

LeafLists == UNION { [1..n -> Leaves] : n \in 0..MaxLeaves }

Shapes == {"list", "dict", "rows", "pages", "nested"}

(* a row of a table: the description and the value *)
RowOf(v) == DictValue(<<StrValue(<<"T", "o", "t", "a", "l", " ", "a", "s", "s", "e", "t", "s">>), v>>)

(* the values put into a list, a dict, a list of rows, a list of pages of
   rows, or a list within nested dicts *)
Shaped(shape, vals) ==
    CASE shape = "list" -> ListValue(vals)
      [] shape = "dict" -> DictValue(vals)
      [] shape = "rows" -> ListValue([i \in 1..Len(vals) |-> RowOf(vals[i])])
      [] shape = "pages" -> ListValue(<<ListValue([i \in 1..Len(vals) |-> RowOf(vals[i])])>>)
      [] shape = "nested" -> DictValue(<<StrValue(<<"F", "Y">>),
                                         DictValue(<<DictValue(<<ListValue(vals)>>)>>)>>)

PlausibleSheet == DictValue(<<NumValue(2000), NumValue(1200), NumValue(800)>>)

ImplausibleSheet == DictValue(<<NumValue(2000), NoneValue, StrValue(<<"n", "/", "a">>)>>)

ParsedRows == ListValue(<<RowOf(NumValue(2000)), RowOf(NumValue(1200)), RowOf(NumValue(800))>>)

(* what an LLM extraction gives: it raises, returns nothing, or returns a
   balance sheet *)
Extractions ==
    {RaisedValue, NoneValue, DictValue(<<>>), PlausibleSheet, ImplausibleSheet}

InitGate ==
    \/ \E shape \in Shapes, vals \in LeafLists :
           Pending("validate_balance_sheet_data", [shape |-> shape, vals |-> vals])
    \/ \E kimi \in Extractions : Pending("upload_pdf", [kimi |-> kimi])
    \/ \E key \in BOOLEAN, pdf_path \in BOOLEAN, mistral_data \in Extractions,
          parsed_rows \in {NoneValue, ParsedRows}, bs \in Extractions :
           Pending("financial_ratio",
                   [key |-> key, pdf_path |-> pdf_path, mistral_data |-> mistral_data,
                    parsed_rows |-> parsed_rows, bs |-> bs])

CallValidate ==
    /\ pc = "call" /\ fn = "validate_balance_sheet_data"
    /\ Return(validate_balance_sheet_data(Shaped(args.shape, args.vals)))

CallUploadPdf ==
    /\ pc = "call" /\ fn = "upload_pdf"
    /\ Return(upload_pdf(args.kimi))

CallFinancialRatio ==
    /\ pc = "call" /\ fn = "financial_ratio"
    /\ Return(financial_ratio(args.key, args.pdf_path, args.mistral_data,
                              args.parsed_rows, args.bs))

NextGate == CallValidate \/ CallUploadPdf \/ CallFinancialRatio

SpecGate == InitGate /\ [][NextGate]_vars

(* ------------------- inputs of the row normalization ------------------- *)

(* label cells: a plain label, a label that holds digits, a reference to a
   note, a label of 3 characters and the longest label *)
LabelCells ==
    { <<"T", "r", "a", "d", "e", " ", "p", "a", "y", "a", "b", "l", "e", "s">>, <<"B", "o", "r", "r", "o", "w", "i", "n", "g", "s", " ", "d", "u", "e", " ", "i", "n", " ", "1", "2", " ", "m", "o", "n", "t", "h", "s">>, <<"S", "e", "e", " ", "N", "o", "t", "e", " ", "4">>, <<"P", "P", "E">>,
      <<"T", "o", "t", "a", "l", " ", "e", "q", "u", "i", "t", "y", " ", "a", "n", "d", " ", "l", "i", "a", "b", "i", "l", "i", "t", "i", "e", "s">> }

(* amount cells: the written form and the numbers that are written in it *)
AmountCells ==
    { [cell |-> <<"(", "1", ",", "2", "3", "4", ")", " ", "5", "6", "7">>, numbers |-> <<Int2Num(-1234), Int2Num(567)>>],
      [cell |-> <<"(", "1", ",", "2", "3", "4", ".", "0", "0", ")", " ", "5", "6", "7", ".", "0", "0">>, numbers |-> <<Int2Num(-1234), Int2Num(567)>>],
      [cell |-> <<"-", "1", "2", " ", "-", "2", "0">>, numbers |-> <<Int2Num(-12), Int2Num(-20)>>],
      [cell |-> <<"1", "0", "0", ".", "0", "0", " ", "1", "0", "0", ".", "0", "5", " ", "1", "0", "0", ".", "2", "0">>,
       numbers |-> <<Int2Num(100), Rat(2001, 20), Rat(501, 5)>>],
      [cell |-> <<"1", ",", "2", "3", "4", ".", "5", "6">>, numbers |-> <<Rat(30864, 25)>>],
      [cell |-> <<"7", "0", "0">>, numbers |-> <<Int2Num(700)>>],
      [cell |-> <<"7", "0", "0", ".", "0", "5">>, numbers |-> <<Rat(14001, 20)>>] }

RowCells == LabelCells \cup {a.cell : a \in AmountCells}

MaxCells == 3

(* the rows: the values of a dict in the order of its keys *)
RawRows == UNION { [1..n -> RowCells] : n \in 1..MaxCells }

InitRows == \E row \in RawRows : Pending("normalized_data", [row |-> row])

CallNormalizeRows ==
    /\ pc = "call" /\ fn = "normalized_data"
    /\ Return(NormalizedRows(<<args.row>>))

NextRows == CallNormalizeRows

SpecRows == InitRows /\ [][NextRows]_vars

(* -------------------- inputs of the final output ----------------------- *)

(* values a percentage-flavoured ratio has inside the engine (a value times
   100), Absent for a ratio that was not computed *)
Percentages == {Absent, Rat(4, 5), Int2Num(8), Int2Num(150), Int2Num(-25)}

GroupedRatios ==
    {[current_ratio |-> Rat(5, 2), debt_ratio |-> Rat(3, 5), gross_margin |-> a,
      net_margin |-> b, roe |-> c, net_profit_margin |-> b, roe_dupont |-> d]
        : a \in Percentages, b \in Percentages, c \in Percentages,
          d \in {Absent, Int2Num(15)}}

ResponsePaths == {"precomputed", "mistral", "deterministic", "flattened"}

InitOutput ==
    \E grouped \in GroupedRatios :
        \/ Pending("flatten_ratios", [grouped |-> grouped, path |-> "flattened"])
        \/ \E path \in ResponsePaths :
               Pending("financial_ratio_response", [grouped |-> grouped, path |-> path])

CallFlattenRatios ==
    /\ pc = "call" /\ fn = "flatten_ratios"
    /\ Return(flatten_ratios(args.grouped))

CallRatioResponse ==
    /\ pc = "call" /\ fn = "financial_ratio_response"
    /\ Return(response_ratios(args.path, args.grouped))

NextOutput == CallFlattenRatios \/ CallRatioResponse

SpecOutput == InitOutput /\ [][NextOutput]_vars

(* --------------------- concurrent invocations -------------------------- *)

(* the invocations that run at the same time, each on a worker thread *)
Workers == 1..2

(* every invocation may be repeated until it has run MaxRuns times *)
MaxRuns == 2

(* all invocations keeping their local variables in one place *)
SharedFrame(w) == 1

(* the place of the local variables of the invocation of worker w: nums of
   calculate_financial_ratios_from_text, normalized_data of
   calculate_financial_ratios and s of the parsers are local variables, so
   every invocation has its own *)
Frame(w) == w

PureFunctions ==
    {"calculate_financial_ratios_from_text", "calculate_financial_ratios",
     "parse_number", "_parse_number_token"}

(* the ratios calculate_financial_ratios computes from its local variable
   financials when no profit-and-loss data is given *)
RatiosOfFinancials(financials) ==
    CHOOSE ratios \in
        {calculate_financial_ratios(financials, figures, FALSE) :
            figures \in {GatheredFigures(NoProfitLoss, NoMistral)}} : TRUE

(* the local variable an invocation of f computes first from its input *)
LocalsOf(f, input) ==
    CASE f = "calculate_financial_ratios_from_text" -> extract_financial_numbers(input)
      [] f = "calculate_financial_ratios" ->
             GatheredFinancials(NormalizedData(input), NoMistral)
      [] f = "parse_number" -> LowerStr(Strip(input, Whitespace))
      [] f = "_parse_number_token" -> LowerStr(Strip(input, Whitespace))

(* what an invocation of f returns, computed from its local variable *)
FromLocals(f, locals) ==
    CASE f = "calculate_financial_ratios_from_text" -> RatiosOfNumbers(locals)
      [] f = "calculate_financial_ratios" -> RatiosOfFinancials(locals)
      [] f = "parse_number" -> parse_number(locals)
      [] f = "_parse_number_token" -> parse_number_token(locals)

(* what f returns for the input when it runs alone *)
Alone(f, input) ==
    CASE f = "calculate_financial_ratios_from_text" ->
             calculate_financial_ratios_from_text(input)
      [] f = "calculate_financial_ratios" ->
             CHOOSE ratios \in
                 {RatiosOfFinancials(financials) :
                     financials \in {GatheredFinancials(NormalizedData(input), NoMistral)}}
                 : TRUE
      [] f = "parse_number" -> parse_number(input)
      [] f = "_parse_number_token" -> parse_number_token(input)

(* the inputs of the invocations: statement texts, row lists and tokens *)
InputsOf(f) ==
    CASE f = "calculate_financial_ratios_from_text" ->
             { <<"T", "o", "t", "a", "l", " ", "a", "s", "s", "e", "t", "s", " ", "2", ",", "0", "0", "0", "\n", "T", "o", "t", "a", "l", " ", "e", "q", "u", "i", "t", "y", " ", "8", "0", "0">>,
               <<"T", "o", "t", "a", "l", " ", "a", "s", "s", "e", "t", "s", " ", "(", "5", "0", "0", ")", "\n", "T", "o", "t", "a", "l", " ", "e", "q", "u", "i", "t", "y", " ", "8", "0", "0">> }
      [] f = "calculate_financial_ratios" ->
             {r \in RowLists :
                /\ Len(r) = 2 /\ r[1].particulars = <<"T", "o", "t", "a", "l", " ", "a", "s", "s", "e", "t", "s">>
                /\ r[2].particulars \in { <<"T", "o", "t", "a", "l", " ", "c", "u", "r", "r", "e", "n", "t", " ", "a", "s", "s", "e", "t", "s">>,
                                          <<"T", "o", "t", "a", "l", " ", "a", "s", "s", "e", "t", "s", " ", "h", "e", "l", "d", " ", "f", "o", "r", " ", "s", "a", "l", "e">> }}
      [] f = "parse_number" ->
             {Wrapped("parentheses", t) : t \in { <<"1", ",", "2", "3", "4", ".", "5", "6">>, <<"N", "A">>, <<"1", ".", "2", ".", "3">> }}
      [] f = "_parse_number_token" ->
             {Wrapped("parentheses", t) : t \in { <<"1", ",", "2", "3", "4", ".", "5", "6">>, <<"2", " ", "L", "a", "k", "h">>, <<"1", ".", "2", ".", "3">> }}

(* pc, args and the fields of result are indexed by worker; result.frames
   holds the local variables, result.value what the last run returned and
   result.first what the first run returned *)
InitInvocations ==
    \E f \in PureFunctions :
        \E inputs \in [Workers -> InputsOf(f)] :
            /\ pc = [w \in Workers |-> "call"]
            /\ fn = f
            /\ args = inputs
            /\ result = [frames |-> [w \in Workers |-> None],
                         value  |-> [w \in Workers |-> None],
                         first  |-> [w \in Workers |-> None],
                         runs   |-> [w \in Workers |-> 1]]

(* the first statements of the invocation of worker w: the local variable
   is computed from the input *)
ComputeLocals(w) ==
    /\ pc[w] = "call"
    /\ \E locals \in {LocalsOf(fn, args[w])} :
           result' = [result EXCEPT !.frames[Frame(w)] = locals]
    /\ pc' = [pc EXCEPT ![w] = "locals"]
    /\ UNCHANGED <<fn, args>>

(* the rest of the invocation of worker w: the result is computed from the
   local variable and returned *)
ReturnFromLocals(w) ==
    /\ pc[w] = "locals"
    /\ \E locals \in {result.frames[Frame(w)]} :
           \E r \in {FromLocals(fn, locals)} :
               result' = [result EXCEPT !.value[w] = r,
                                        !.first[w] = IF result.runs[w] = 1 THEN r ELSE @]
    /\ pc' = [pc EXCEPT ![w] = "done"]
    /\ UNCHANGED <<fn, args>>

(* worker w invokes the function again on the same input *)
InvokeAgain(w) ==
    /\ pc[w] = "done"
    /\ result.runs[w] < MaxRuns
    /\ result' = [result EXCEPT !.runs[w] = @ + 1]
    /\ pc' = [pc EXCEPT ![w] = "call"]
    /\ UNCHANGED <<fn, args>>

NextInvocations ==
    \E w \in Workers : ComputeLocals(w) \/ ReturnFromLocals(w) \/ InvokeAgain(w)

SpecInvocations == InitInvocations /\ [][NextInvocations]_vars

(* ------------------- properties of the text extraction ----------------- *)

(* the amount a token of a statement writes: its digits with the decimal
   part, negative in parentheses or after a minus sign, times the scale of
   its suffix; None for a token that writes no amount *)
Written(tok) ==
    LET v     == PyFloat(Keep(tok, DigitSet \cup {"."}))
        neg   == tok # <<>> /\ tok[1] \in {"(", "-"}
        scale == IF Contains(tok, <<"l", "a", "k", "h">>) THEN 100000
                 ELSE IF Contains(tok, <<"c", "r">>) THEN 10000000 ELSE 1
    IN  IF ~IsNum(v) THEN None ELSE Mul(IF neg THEN Neg(v) ELSE v, Int2Num(scale))

(* what stands between the label and the first column keeps the column on
   the label's line and holds no number of its own *)
PlainSeparator(sep) == \A i \in 1..Len(sep) : sep[i] \notin DigitSet \cup {"\n"}

(* the first column looks like a note index in front of a much larger
   amount *)
NoteIndexFirst(toks) ==
    /\ Len(toks) >= 2
    /\ IsNum(Written(toks[1])) /\ IsNum(Written(toks[2]))
    /\ Less(Written(toks[1]), Int2Num(200)) /\ Less(Int2Num(-200), Written(toks[1]))
    /\ Less(Int2Num(500), Written(toks[2]))

(* C5: when the line find_amount matches carries several numeric tokens,
   the first below 200 and the following one much larger, find_amount
   returns the second token, otherwise the first; for "Cash 4 200000
   150000" it returns 200000. *)
C5_NoteIndexSkipped ==
    (/\ Returned("find_amount")
     /\ PlainSeparator(args.sep)
     /\ Len(args.toks) >= 2
     /\ IsNum(Written(args.toks[1])) /\ IsNum(Written(args.toks[2])))
    => result = IF NoteIndexFirst(args.toks) THEN Written(args.toks[2])
                ELSE Written(args.toks[1])

(* C6: for a line whose label leads to a field and which is laid out as
   note index, latest year, previous year or as latest year, previous
   year, simulate_extract_balance_sheet stores the latest-year amount under
   the field, never the note index or the previous-year amount. *)
C6_LatestYearStored ==
    (/\ Returned("simulate_extract_balance_sheet")
     /\ ~result.exc
     /\ args.previous # <<>>)
    => result[args.section][args.key] = Written(args.latest)

(* C7: a keyword followed on the same line by a numeric token, possibly
   after punctuation or a note marker, makes find_amount return the value
   of that token with currency symbols and thousands separators removed
   and the decimal part kept: 10532.81 for "Total Assets ... 10,532.81". *)
C7_DecimalPartKept ==
    (/\ Returned("find_amount")
     /\ \A i \in 1..Len(args.sep) : args.sep[i] # "\n"
     /\ IsNum(Written(args.toks[1]))
     /\ ~NoteIndexFirst(args.toks))
    => result = Written(args.toks[1])

(* C8: a field none of whose keywords stands in any line of the source text
   is None (absent) in what the Field Extractor returns; no value is
   guessed for it. *)
C8_NoFabrication ==
    /\ Returned("debug_analyze_session") =>
         \A m \in 1..Len(debug_mapping) :
             (~\E k \in 1..Len(debug_mapping[m].keywords) :
                   Contains(Document(args.held), debug_mapping[m].keywords[k]))
             => result.found[debug_mapping[m].field] = Absent
    /\ (Returned("simulate_extract_balance_sheet") /\ ~result.exc) =>
         \A m \in 1..Len(mapping) :
             ~Mapped(StatementLine(args), mapping[m].section, mapping[m].key)
             => NoValue(result[mapping[m].section][mapping[m].key])
    /\ Returned("calculate_financial_ratios_from_text") =>
         \A f \in {"cash_and_cash_equivalents", "gross_profit", "operating_income", "ebit",
                   "interest_expense", "net_income", "receivables", "payables"} :
             result.extracted_numbers[f] = None

(* C9: for a text in which each of the eight labels stands on its own line
   followed by one amount, the from-text computation returns current_ratio
   = CA / CL, quick_ratio = (CA - inventory) / CL, debt_ratio = TL / TA,
   debt_to_equity = TL / TE and gross_margin = (revenue - COGS) / revenue,
   each to the four decimals it reports and None for a zero divisor; 2.5,
   2.0, 0.6, 1.5 and 0.4 for the example block. *)
C9_RatiosFromText ==
    Returned("calculate_financial_ratios_from_text") =>
        LET amount(i) == Written(args.amounts[i])
            Is(v, x, y) == v = IF IsZero(y) THEN None ELSE Round(Quot(x, y), 4)
        IN  /\ Is(result.liquidity_ratios.current_ratio, amount(1), amount(3))
            /\ Is(result.liquidity_ratios.quick_ratio,
                  Sub(amount(1), amount(2)), amount(3))
            /\ Is(result.solvency_ratios.debt_ratio, amount(6), amount(4))
            /\ Is(result.solvency_ratios.debt_to_equity, amount(6), amount(5))
            /\ Is(result.profitability_ratios.gross_margin,
                  Sub(amount(7), amount(8)), amount(7))

(* C10: every number parser multiplies the mantissa by 1e5 for a token that
   ends with lakh or lakhs and by 1e7 for one that ends with crore, crores
   or cr, in any case of the letters: parse_number("1.5 crore") = 1.5e7 and
   parse_number("2 lakhs") = 2e5. *)
C10_ScaleSuffix ==
    (/\ pc = "done" /\ fn \in Parsers
     /\ args.wrap = "none"
     /\ args.mantissa \in ScaledMantissas
     /\ args.suffix # <<>>)
    => result = Mul(PyFloat(args.mantissa),
                    Int2Num(IF Lower(args.suffix[1]) = "l" THEN 100000 ELSE 10000000))


(* the tokens of PlainTokens that are written numbers *)
WrittenNumbers == { <<"1", ",", "2", "3", "4", ".", "5", "6">>, <<"1", "0", ",", "5", "3", "2", ".", "8", "1">> }

(* C11: every number parser of the extraction code returns the negated
   number for a numeric token wrapped in parentheses:
   parse_number("(1,234.56)") = -1234.56. *)
C11_ParenthesesNegative ==
    (/\ pc = "done" /\ fn \in Parsers
     /\ args.wrap = "parentheses"
     /\ args.mantissa \in WrittenNumbers)
    => result = Neg(PyFloat(Drop(args.mantissa, {","})))

(* C12: the number parsers never raise: whatever the token, the result is a
   number or None. *)
C12_ParserNeverRaises ==
    (pc = "done" /\ fn \in {"parse_number", "_parse_number_token"})
    => (IsNum(result) \/ IsNone(result))


(* the rows of the normalized data whose description holds every keyword *)
RowsHolding(normalized_data, keywords) ==
    {i \in 1..Len(normalized_data) :
        \A k \in 1..Len(keywords) : Contains(normalized_data[i].particulars, keywords[k])}

(* the keyword-sets of a field that some row satisfies *)
SetsSatisfied(normalized_data, term_sets) ==
    {t \in 1..Len(term_sets) : RowsHolding(normalized_data, term_sets[t]) # {}}

(* v is a value of the first row that satisfies the first satisfied
   keyword-set *)
FromFirstRow(v, normalized_data, term_sets) ==
    LET first == Min(RowsHolding(normalized_data,
                                 term_sets[Min(SetsSatisfied(normalized_data, term_sets))]))
    IN  \E j \in 1..Len(normalized_data[first].values) : v = normalized_data[first].values[j]

RowsCall ==
    /\ Returned("calculate_financial_ratios")
    /\ args.balance_sheet_data.kind = "rows"
    /\ ~args.mistral_financials.given

(* C13: for each field, the value comes from the first normalized row, in
   row order, that holds all keywords of the keyword-set that is satisfied;
   a row that matches later does not change it. *)
C13_FirstRowWins ==
    RowsCall =>
        \A key \in DOMAIN SEARCH_TERMS :
            SetsSatisfied(NormalizedData(args.balance_sheet_data.rows), SEARCH_TERMS[key]) # {}
            => FromFirstRow(result.financials[key],
                            NormalizedData(args.balance_sheet_data.rows), SEARCH_TERMS[key])

(* C14: with a structured source, every field it supplies is the value the
   ratios are computed from: the balance-sheet fields, the profit-and-loss
   figures whatever profit_loss_data holds, and the cash of the working
   capital cash ratio. *)
C14_StructuredSourceWins ==
    (/\ Returned("calculate_financial_ratios")
     /\ args.mistral_financials.given /\ ~result.error)
    => LET m == args.mistral_financials
           Kept(supplied, used) == IsNum(supplied) => used = supplied
       IN  /\ Kept(m.total_assets, result.financials.total_assets)
           /\ Kept(m.current_assets, result.financials.current_assets)
           /\ Kept(m.total_liabilities, result.financials.total_liabilities)
           /\ Kept(m.current_liabilities, result.financials.current_liabilities)
           /\ Kept(m.total_equity, result.financials.equity)
           /\ Kept(m.cash_and_equivalents, result.financials.cash)
           /\ Kept(m.revenue, result.figures.revenue)
           /\ Kept(m.net_profit, result.figures.net_income)
           /\ Kept(m.ebitda, result.figures.ebitda)
           /\ Kept(m.interest_expense, result.figures.interest_expense)
           /\ (IsNum(m.cash_and_equivalents) /\ safe_gt(m.current_liabilities, 0))
                  => result.ratios.wc_cash_ratio
                         = Quot(m.cash_and_equivalents, m.current_liabilities)

(* C20: the ratio computation raises to its caller when balance_sheet_data
   is neither a string nor a list of rows, and for a string or a list of
   rows it does not raise. *)
C20_RaisesOnMalformedOnly ==
    Returned("calculate_financial_ratios")
    => /\ args.balance_sheet_data.kind = "number" => result.exc
       /\ args.balance_sheet_data.kind \in {"rows", "text"} => ~result.exc


(* the leaves that are positive numeric values: the positive numbers and
   the strings the Number Parser converts to a positive number *)
PositiveLeaves == { NumValue(5), NumValue(7), StrValue(<<"1", ",", "2", "3", "4">>), StrValue(<<"N", "o", "t", "e", " ", "4">>) }

(* the positions of the positive numeric values of the input *)
PositiveAt(vals) == {i \in 1..Len(vals) : vals[i] \in PositiveLeaves}

(* C15: the plausibility check returns false for every input, of any
   shape, that holds fewer than 3 positive numeric values. *)
C15_FewValuesRejected ==
    (/\ Returned("validate_balance_sheet_data")
     /\ Cardinality(PositiveAt(args.vals)) < MinNumericCount)
    => result = FALSE

C15_Witness ==
    /\ Returned("validate_balance_sheet_data")
    /\ args.shape = "nested"
    /\ Cardinality(PositiveAt(args.vals)) = MinNumericCount - 1
    /\ Len(args.vals) = MaxLeaves
    /\ result = FALSE

(* C16: the plausibility check counts distinct values: an input whose
   positive numeric values take fewer than 3 different values is rejected,
   however often they occur. *)
C16_DistinctValuesCounted ==
    (/\ Returned("validate_balance_sheet_data")
     /\ Cardinality({args.vals[i] : i \in PositiveAt(args.vals)}) < MinNumericCount)
    => result = FALSE

(* x is a balance sheet that fails the plausibility check *)
Implausible(x) == IsContainer(x) /\ ~validate_balance_sheet_data(x)

(* the session neither holds x nor has ratios computed from x *)
Discarded(x) == result.balance_sheet_data # x /\ result.ratios_of # x

(* C17: a balance sheet of an LLM backend that fails the plausibility
   check is discarded: the session does not hold it and no ratios are
   computed from it. *)
C17_ImplausibleDiscarded ==
    /\ (Returned("upload_pdf") /\ Implausible(args.kimi)) => Discarded(args.kimi)
    /\ (Returned("financial_ratio") /\ Implausible(args.mistral_data))
           => Discarded(args.mistral_data)
    /\ (Returned("financial_ratio") /\ Implausible(args.bs)) => Discarded(args.bs)


(* the ratios the engine computes as a value times 100 *)
PercentageRatios == {"gross_margin", "net_margin", "roe", "net_profit_margin", "roe_dupont"}

(* v is the internal value w as a plain fraction, exact or to 4 places *)
AsFraction(v, w) ==
    v = Quot(w, Int2Num(100)) \/ v = Round(Quot(w, Int2Num(100)), 4)

(* C18: in the ratios handed to the caller, on every response path, each
   percentage-flavoured ratio is its internal value divided by 100, whatever
   its magnitude. *)
C18_PercentagesAsFractions ==
    Returned("financial_ratio_response")
    => \A k \in PercentageRatios :
           IsNum(args.grouped[k]) => AsFraction(result[k], args.grouped[k])

(* C19: normalizing a normalized ratio set again changes no value. *)
C19_NormalizationIdempotent ==
    Returned("flatten_ratios") => flatten_ratios(result) = result

(* C21: an invocation that has returned, whatever ran at the same time on
   the other worker, has returned what the function returns for its input
   when it runs alone, and a repeated invocation has returned what the
   first one returned. *)
C21_InvocationsIndependent ==
    \A w \in Workers :
        pc[w] = "done"
        => /\ result.value[w] = Alone(fn, args[w])
           /\ result.value[w] = result.first[w]

(* both invocations ran at the same time on different inputs, the one of
   worker 1 for the second time, and returned *)
C21_Witness ==
    /\ \A w \in Workers : pc[w] = "done"
    /\ args[1] # args[2]
    /\ result.runs[1] = MaxRuns
    /\ result.value[1] # result.value[2]

(* v is what the summary may report for a field with a derivation fallback:
   the extracted value when there is one; else nothing, or the value of the
   formula when all its operands are known *)
DerivedOnly(v, extracted, operands_known, formula) ==
    IF ~IsNone(extracted) THEN v = extracted
    ELSE IF operands_known THEN NoValue(v) \/ v = formula
    ELSE NoValue(v)

(* C22: each derivation fallback assigns its field only when the field was
   not extracted and every operand of its formula is known; an extracted
   value is kept and a field whose operands are not all known stays None. *)
C22_DerivationFallbacks ==
    Returned("calculate_financial_ratios") =>
        LET f  == Financials(args[1], args[2])
            known(x) == ~IsNone(x)
            tl == IF known(f.total_liabilities) THEN f.total_liabilities
                  ELSE IF known(f.total_assets) /\ known(f.equity)
                       THEN Sub(f.total_assets, f.equity) ELSE None
            ta == IF known(f.total_assets) THEN f.total_assets
                  ELSE IF known(tl) /\ known(f.equity) THEN Add(tl, f.equity) ELSE None
        IN  /\ DerivedOnly(result.sum_total_liabilities, f.total_liabilities,
                           known(f.total_assets) /\ known(f.equity),
                           Sub(f.total_assets, f.equity))
            /\ DerivedOnly(result.sum_total_assets, f.total_assets,
                           known(f.total_liabilities) /\ known(f.equity),
                           Add(f.total_liabilities, f.equity))
            /\ DerivedOnly(result.sum_current_liabilities, f.current_liabilities,
                           known(tl) /\ known(f.non_current_liabilities),
                           Sub(tl, f.non_current_liabilities))
            /\ DerivedOnly(result.sum_non_current_assets, f.non_current_assets,
                           known(ta) /\ known(f.current_assets),
                           Sub(ta, f.current_assets))

(* the cells of the row that hold several numbers *)
SeveralNumbers == {a \in AmountCells : Len(a.numbers) >= 2}

(* labels without digits that make a description *)
PlainLabels == { <<"T", "r", "a", "d", "e", " ", "p", "a", "y", "a", "b", "l", "e", "s">>, <<"T", "o", "t", "a", "l", " ", "e", "q", "u", "i", "t", "y", " ", "a", "n", "d", " ", "l", "i", "a", "b", "i", "l", "i", "t", "i", "e", "s">> }

(* C23: in a row of a plain label and one cell that holds several numbers,
   the values of the normalized row are the numbers written in that cell,
   each with its own sign, from left to right. *)
C23_EveryNumberOfACell ==
    Returned("normalized_data") =>
        \A a \in SeveralNumbers, label \in PlainLabels :
            (args.row = <<label, a.cell>>
             /\ \A j \in 1..(Len(a.numbers) - 1) :
                    Less(Rat(1, 10), Sub(a.numbers[j + 1], a.numbers[j])))
            => /\ Len(result) = 1
               /\ result[1].values = a.numbers

(* the string cells of the row that are longer than 3 characters and do
   not hold "note" *)
LongCells(row) ==
    {i \in 1..Len(row) : /\ Len(row[i]) > 3
                         /\ ~Contains(LowerStr(row[i]), <<"n", "o", "t", "e">>)}

(* the longest of them, the first one of equally long cells *)
LongestCell(row) ==
    CHOOSE i \in LongCells(row) :
        \A j \in LongCells(row) :
            Len(row[j]) < Len(row[i]) \/ (Len(row[j]) = Len(row[i]) /\ i <= j)

(* C24: when the longest string cell of the row that is longer than 3
   characters and does not hold "note" is a label, with or without digits in
   it, that label is the description of the normalized row. *)
C24_LongestLabelDescribes ==
    (Returned("normalized_data") /\ Len(result) = 1 /\ LongCells(args.row) # {})
    => (args.row[LongestCell(args.row)] \in LabelCells
        => result[1].particulars = CollapseBlanks(args.row[LongestCell(args.row)]))

(* kept is made of elements of all_numbers in their original order, from
   element i of kept and element j of all_numbers on *)
RECURSIVE InOriginalOrder(_, _, _, _)
InOriginalOrder(kept, i, all_numbers, j) ==
    IF i > Len(kept) THEN TRUE
    ELSE IF j > Len(all_numbers) THEN FALSE
    ELSE IF kept[i] = all_numbers[j] THEN InOriginalOrder(kept, i + 1, all_numbers, j + 1)
    ELSE InOriginalOrder(kept, i, all_numbers, j + 1)

(* C25: in a normalized row no two adjacent values differ by 0.1 or less,
   the values are numbers of the row in their original order, and the first
   number of the row is kept. *)
C25_NoAdjacentNearEqual ==
    (Returned("normalized_data") /\ Len(result) = 1)
    => LET values      == result[1].values
           all_numbers == RowScan(args.row, 1, <<>>, <<>>).all_numbers
       IN  /\ \A j \in 1..(Len(values) - 1) :
                  \/ Less(Rat(1, 10), Sub(values[j + 1], values[j]))
                  \/ Less(Rat(1, 10), Sub(values[j], values[j + 1]))
           /\ InOriginalOrder(values, 1, all_numbers, 1)
           /\ values[1] = all_numbers[1]

(* a row whose numbers hold a run of near-equal numbers was normalized:
   some numbers were left out and several were kept *)
C25_Witness ==
    /\ Returned("normalized_data") /\ Len(result) = 1
    /\ Len(result[1].values) >= 2
    /\ Len(result[1].values) < Len(RowScan(args.row, 1, <<>>, <<>>).all_numbers)

(* ------------------------- agent orchestration ------------------------- *)

(* the names agents are registered under, in the order of registration *)
AgentNames == <<"pdf_extraction", "balance_sheet_extraction", "financial_ratios">>

(* an agent names at most MaxDeps dependencies *)
MaxDeps == 2

(* the thread pools the orchestrator is constructed with *)
PoolSizes == {1, 6}

Finished == {"completed", "failed"}

(* BaseAgent.check_dependencies: every dependency has a result in the
   registry and that result is COMPLETED *)
check_dependencies(dependencies, results) ==
    \A dep \in dependencies :
        /\ dep \in DOMAIN results
        /\ results[dep] = "completed"

(* a plan that waits for no dependency *)
deps_ignored(dependencies, executed) == TRUE

(* deps_met of build_execution_plan *)
deps_met(dependencies, executed) == \A dep \in dependencies : dep \in executed

(* the list ready of one iteration of build_execution_plan, in the order
   of self.agents *)
ReadyAgents(agents, dependencies, executed) ==
    SelectSeq(agents, LAMBDA name :
        /\ name \notin executed
        /\ deps_met(dependencies[name], executed))

SeqRange(s) == {s[i] : i \in DOMAIN s}

(* the registries: agents registered in the order of AgentNames, each with
   up to MaxDeps dependencies, registered or not *)
Registries ==
    {[agents |-> agents, dependencies |-> dependencies] :
        agents \in {SelectSeq(AgentNames, LAMBDA name : name \in chosen) :
                        chosen \in SUBSET SeqRange(AgentNames)},
        dependencies \in [SeqRange(AgentNames) ->
                            {deps \in SUBSET SeqRange(AgentNames) :
                                Cardinality(deps) <= MaxDeps}]}

(* the orchestrator is constructed, its agents are registered and
   execute_agents is called: the results registry is cleared and
   build_execution_plan starts with nothing executed.  Dependencies of
   names that are not registered belong to no agent and are left empty. *)
InitAgents ==
    \E registry \in Registries, max_workers \in PoolSizes :
        /\ \A name \in SeqRange(AgentNames) \ SeqRange(registry.agents) :
               registry.dependencies[name] = {}
        /\ pc = "plan"
        /\ fn = "execute_agents"
        /\ args = [agents |-> registry.agents,
                   dependencies |-> registry.dependencies,
                   max_workers |-> max_workers]
        /\ result = [executed |-> {},
                     execution_plan |-> <<>>,
                     stage |-> 0,
                     futures |-> <<>>,
                     queue |-> <<>>,
                     status |-> [name \in SeqRange(registry.agents) |-> "idle"],
                     results |-> <<>>]

(* one iteration of the while loop of build_execution_plan that finds
   agents ready *)
PlanStage ==
    /\ pc = "plan"
    /\ Cardinality(result.executed) < Len(args.agents)
    /\ \E ready \in {ReadyAgents(args.agents, args.dependencies, result.executed)} :
           /\ ready # <<>>
           /\ result' = [result EXCEPT
                            !.execution_plan = Append(@, ready),
                            !.executed = @ \cup SeqRange(ready)]
    /\ UNCHANGED <<pc, fn, args>>

(* the iteration that finds no agent ready: ValueError *)
PlanRaise ==
    /\ pc = "plan"
    /\ Cardinality(result.executed) < Len(args.agents)
    /\ ReadyAgents(args.agents, args.dependencies, result.executed) = <<>>
    /\ pc' = "raise"
    /\ UNCHANGED <<fn, args, result>>

(* the while loop ends and build_execution_plan returns the plan to
   execute_agents, which turns to the first stage if there is one *)
PlanReturn ==
    /\ pc = "plan"
    /\ Cardinality(result.executed) >= Len(args.agents)
    /\ pc' = IF result.execution_plan = <<>> THEN "done" ELSE "submit"
    /\ result' = [result EXCEPT !.stage = 1]
    /\ UNCHANGED <<fn, args>>

(* every agent of the stage is submitted to the executor *)
SubmitStage ==
    /\ pc = "submit"
    /\ \E agent_names \in {result.execution_plan[result.stage]} :
           result' = [result EXCEPT !.futures = agent_names,
                                    !.queue = @ \o agent_names]
    /\ pc' = "collect"
    /\ UNCHANGED <<fn, args>>

(* a free worker thread of the pool takes the oldest submitted call and
   BaseAgent.run sets the status of the agent to RUNNING *)
StartAgent ==
    /\ result.queue # <<>>
    /\ Cardinality({name \in DOMAIN result.status :
                        result.status[name] = "running"}) < args.max_workers
    /\ result' = [result EXCEPT !.status[Head(result.queue)] = "running",
                                !.queue = Tail(@)]
    /\ UNCHANGED <<pc, fn, args>>

(* execute returns or raises and BaseAgent.run sets the final status *)
FinishAgent ==
    \E name \in DOMAIN result.status, status \in Finished :
        /\ result.status[name] = "running"
        /\ result' = [result EXCEPT !.status[name] = status]
        /\ UNCHANGED <<pc, fn, args>>

(* where execute_agents goes after the wait for a future: the next future,
   the next stage or the end *)
AfterWait ==
    /\ pc' = IF Len(result.futures) > 1 THEN "collect"
             ELSE IF result.stage < Len(result.execution_plan) THEN "submit"
             ELSE "done"
    /\ UNCHANGED <<fn, args>>

StageAfterWait ==
    IF Len(result.futures) > 1 THEN result.stage ELSE result.stage + 1

(* future.result(timeout=60) returns the result of an agent that has
   finished; it is stored in the registry *)
CollectResult ==
    /\ pc = "collect"
    /\ \E agent_name \in {Head(result.futures)} :
           /\ result.status[agent_name] \in Finished
           /\ result' = [result EXCEPT
                            !.results = (agent_name :> result.status[agent_name]) @@ @,
                            !.futures = Tail(@),
                            !.stage = StageAfterWait]
    /\ AfterWait

(* the agent has not finished when the wait ends: the exception handler
   stores a FAILED result for it *)
CollectTimeout ==
    /\ pc = "collect"
    /\ \E agent_name \in {Head(result.futures)} :
           /\ result.status[agent_name] \notin Finished
           /\ result' = [result EXCEPT
                            !.results = (agent_name :> "failed") @@ @,
                            !.futures = Tail(@),
                            !.stage = StageAfterWait]
    /\ AfterWait

NextAgents ==
    \/ PlanStage
    \/ PlanRaise
    \/ PlanReturn
    \/ SubmitStage
    \/ StartAgent
    \/ FinishAgent
    \/ CollectResult
    \/ CollectTimeout

SpecAgents == InitAgents /\ [][NextAgents]_vars

(* ----------------------- claims: orchestration ------------------------- *)

Registered == SeqRange(args.agents)

(* the names reached from the given names by following dependencies for
   up to n more steps *)
RECURSIVE Reached(_, _)
Reached(names, n) ==
    IF n = 0 THEN names
    ELSE Reached(names \cup UNION {args.dependencies[name] :
                                      name \in names \cap Registered}, n - 1)

(* what the agent depends on, directly or through other agents *)
DependsOn(name) == Reached(args.dependencies[name], Len(AgentNames))

OnCycle(name) == name \in Registered /\ name \in DependsOn(name)

(* some agent depends on an agent that is not registered, or lies on or
   behind a dependency cycle *)
Unschedulable ==
    \E name \in Registered :
        \/ args.dependencies[name] \ Registered # {}
        \/ OnCycle(name)
        \/ \E dep \in DependsOn(name) : OnCycle(dep)

(* how often the agent appears in the plan *)
Occurrences(plan, name) ==
    Cardinality({place \in {<<i, j>> : i \in DOMAIN plan, j \in 1..Len(AgentNames)} :
                    /\ place[2] <= Len(plan[place[1]])
                    /\ plan[place[1]][place[2]] = name})

StageOf(plan, name) ==
    CHOOSE i \in DOMAIN plan : name \in SeqRange(plan[i])

(* C26: build_execution_plan terminates: it has made no more iterations
   than agents are executed, and these are registered agents.  It raises
   ValueError exactly when some agent depends on an unregistered agent or
   lies on or behind a dependency cycle; otherwise it returns stages in
   which every registered agent appears exactly once and each dependency
   of an agent appears in a strictly earlier stage. *)
C26_PlanOrValueError ==
    /\ /\ Len(result.execution_plan) <= Cardinality(result.executed)
       /\ result.executed \subseteq Registered
    /\ pc = "raise" => Unschedulable
    /\ pc \notin {"plan", "raise"} =>
           /\ ~Unschedulable
           /\ \A name \in Registered :
                  /\ Occurrences(result.execution_plan, name) = 1
                  /\ \A dep \in args.dependencies[name] :
                         /\ Occurrences(result.execution_plan, dep) = 1
                         /\ StageOf(result.execution_plan, dep)
                                < StageOf(result.execution_plan, name)

(* a plan of one agent per stage is returned *)
C26_Witness ==
    /\ pc = "submit"
    /\ Len(result.execution_plan) = Len(AgentNames)
    /\ \E name \in Registered : Cardinality(args.dependencies[name]) = 2

(* C27: execute_agents runs an agent only if every one of its dependencies
   finished with status COMPLETED: an agent that has been started has all
   its dependencies recorded as COMPLETED. *)
C27_RunsOnlyAfterCompleted ==
    \A name \in DOMAIN result.status :
        result.status[name] # "idle"
        => check_dependencies(args.dependencies[name], result.results)

(* C28: no agent is running while an agent of an earlier stage is still
   running, and the status recorded for an agent in the results registry
   equals the final status of the agent. *)
C28_StagesDoNotOverlap ==
    /\ \A earlier \in DOMAIN result.status, later \in DOMAIN result.status :
           /\ pc \notin {"plan", "raise"}
           /\ StageOf(result.execution_plan, earlier)
                  < StageOf(result.execution_plan, later)
           /\ result.status[earlier] = "running"
           => result.status[later] # "running"
    /\ \A name \in DOMAIN result.results :
           result.status[name] \in Finished
           => result.results[name] = result.status[name]

(* ------------------------- sessions and restart ------------------------ *)

(* upload_pdf and create_fake_session together issue at most MaxSessions
   session ids; the uuid4 strings are numbered in the order of issue *)
MaxSessions == 3

(* Python values held by the stores and JSON values held by the session
   files, each with its type: t is the type and v the content *)
PyNone == [t |-> "None", v |-> <<>>]

PyList(items) == [t |-> "list", v |-> items]

PyStr(s) == [t |-> "str", v |-> s]

PyDict(d) == [t |-> "dict", v |-> d]

(* json.dump of a payload dict: every value as the JSON value it is
   written as *)
json_dump(payload) ==
    [key \in DOMAIN payload |->
        [t |-> CASE payload[key].t = "None" -> "null"
                 [] payload[key].t = "list" -> "array"
                 [] payload[key].t = "str" -> "string"
                 [] payload[key].t = "dict" -> "object",
         v |-> payload[key].v]]

(* json.load of a session file: every value as the Python value it is
   read as *)
json_load(text) ==
    [key \in DOMAIN text |->
        [t |-> CASE text[key].t = "null" -> "None"
                 [] text[key].t = "array" -> "list"
                 [] text[key].t = "string" -> "str"
                 [] text[key].t = "object" -> "dict",
         v |-> text[key].v]]

(* data.get(key) *)
DictGet(data, key) == IF key \in DOMAIN data THEN data[key] ELSE PyNone

(* the truth value of a Python value *)
PyTruth(value) ==
    CASE value.t = "None" -> FALSE
      [] value.t = "list" -> value.v # <<>>
      [] OTHER -> TRUE

SameValue(a, b) == a.t = b.t /\ a.v = b.v

(* sample_balance of create_fake_session: one page of three rows *)
sample_balance ==
    PyList(<< <<[Particulars |-> "Total Assets", amount |-> "1000000"],
                [Particulars |-> "Total Liabilities", amount |-> "400000"],
                [Particulars |-> "Equity", amount |-> "600000"]>> >>)

(* what the balance sheet extraction of upload_pdf yields for the
   uploaded documents: nothing, no page, one page or two pages of rows *)
ExtractedBalanceSheets ==
    {PyNone,
     PyList(<<>>),
     PyList(<< <<[Particulars |-> "Total assets", amount |-> "2,000"],
                 [Particulars |-> "Total equity", amount |-> "800"]>> >>),
     PyList(<< <<[Particulars |-> "Total assets", amount |-> "2,000"]>>,
               <<[Particulars |-> "Total liabilities", amount |-> "1,200"]>> >>)}

(* the rows of all pages in one list *)
RECURSIVE FlatRows(_)
FlatRows(pages) ==
    IF pages = <<>> THEN <<>> ELSE Head(pages) \o FlatRows(Tail(pages))

(* the store of a session: which class it is and its attributes
   balance_sheet_data and ratios_result (None when the attribute is
   missing, as getattr with default None reads it) *)
Store(class, balance_sheet_data, ratios_result) ==
    [class |-> class,
     balance_sheet_data |-> balance_sheet_data,
     ratios_result |-> ratios_result]

(* ratios_result of upload_pdf: the ratios calculate_financial_ratios
   computes from the flattened rows *)
RatiosOfRows(flat_rows) == PyDict([computed_from |-> flat_rows])

(* the payload upload_pdf persists for the session *)
PersistPayload(session_id, balance_sheet_data, ratios_result) ==
    IF PyTruth(balance_sheet_data)
    THEN [original_filepath |-> PyStr(session_id),
          balance_sheet_data |-> balance_sheet_data,
          ratios_result |-> ratios_result]
    ELSE [session_id |-> PyStr(session_id),
          original_filepath |-> PyStr(session_id)]

(* load_persisted_sessions: a store for every session file that holds a
   session_id *)
load_persisted_sessions(session_files) ==
    [sid \in {name \in DOMAIN session_files :
                 PyTruth(DictGet(json_load(session_files[name]), "session_id"))} |->
        Store("PersistentStore",
              DictGet(json_load(session_files[sid]), "balance_sheet_data"),
              PyNone)]

NoResponse == [status |-> 0, session_id |-> 0, path |-> "none", error |-> "none"]

(* the server has started with an empty sessions folder; the environment
   has or has not a Mistral API key *)
InitSessions ==
    \E mistral_api_key \in BOOLEAN :
        /\ pc = "serving"
        /\ fn = "load_persisted_sessions"
        /\ args = [MISTRAL_API_KEY |-> mistral_api_key]
        /\ result = [issued |-> 0,
                     uploaded |-> {},
                     restarted |-> {},
                     session_files |-> <<>>,
                     pdf_stores |-> <<>>,
                     response |-> NoResponse]

(* upload_pdf: a new session with the analyzer as its store; the session
   file is written *)
UploadPdf ==
    /\ result.issued < MaxSessions
    /\ \E balance_sheet_data \in ExtractedBalanceSheets :
         \E session_id \in {result.issued + 1} :
           \E ratios_result \in {IF PyTruth(balance_sheet_data)
                                 THEN RatiosOfRows(FlatRows(balance_sheet_data.v))
                                 ELSE PyNone} :
             result' = [result EXCEPT
                 !.issued = session_id,
                 !.uploaded = @ \cup {session_id},
                 !.pdf_stores = (session_id :>
                     Store("FinancialAnalyzer", balance_sheet_data, ratios_result)) @@ @,
                 !.session_files = (session_id :>
                     json_dump(PersistPayload(session_id, balance_sheet_data,
                                              ratios_result))) @@ @,
                 !.response = [status |-> 200, session_id |-> session_id,
                               path |-> "upload", error |-> "none"]]
    /\ fn' = "upload_pdf"
    /\ UNCHANGED <<pc, args>>

(* create_fake_session: a session in memory only, with sample_balance and
   no ratios_result *)
CreateFakeSession ==
    /\ result.issued < MaxSessions
    /\ \E sid \in {result.issued + 1} :
           result' = [result EXCEPT
               !.issued = sid,
               !.pdf_stores = (sid :> Store("MockStore", sample_balance, PyNone)) @@ @,
               !.response = [status |-> 200, session_id |-> sid,
                             path |-> "fake", error |-> "none"]]
    /\ fn' = "create_fake_session"
    /\ UNCHANGED <<pc, args>>

(* the server is restarted: pdf_stores is empty again and
   load_persisted_sessions runs at import *)
Restart ==
    /\ result.issued > 0
    /\ result' = [result EXCEPT
           !.pdf_stores = load_persisted_sessions(result.session_files),
           !.restarted = result.uploaded,
           !.response = NoResponse]
    /\ fn' = "load_persisted_sessions"
    /\ UNCHANGED <<pc, args>>

(* the local variables financial_ratio has assigned when it reaches the
   Mistral branch: pdf_path is assigned only where there is no balance
   data *)
AssignedLocals(balance_data) ==
    {"session_id", "pdf_store", "balance_data", "precomputed"}
        \cup (IF PyTruth(balance_data) THEN {} ELSE {"pdf_path"})

(* the response of financial_ratio for a store with precomputed ratios or
   with balance data *)
RatioResponse(session_id, pdf_store, mistral_api_key) ==
    IF PyTruth(pdf_store.ratios_result)
    THEN [status |-> 200, session_id |-> session_id,
          path |-> "precomputed", error |-> "none"]
    ELSE IF mistral_api_key /\ "pdf_path" \notin AssignedLocals(pdf_store.balance_sheet_data)
    THEN [status |-> 500, session_id |-> session_id,
          path |-> "stored_rows", error |-> "UnboundLocalError"]
    ELSE [status |-> 200, session_id |-> session_id,
          path |-> "stored_rows", error |-> "none"]

(* financial_ratio for a session id that was issued: 404 when the session
   has no store.  A store with neither ratios nor balance data goes to the
   on-demand extraction from the PDF, which is not part of this model. *)
FinancialRatio ==
    /\ \E session_id \in 1..result.issued :
           IF session_id \notin DOMAIN result.pdf_stores
           THEN result' = [result EXCEPT
                    !.response = [status |-> 404, session_id |-> session_id,
                                  path |-> "not_found", error |-> "ValueError"]]
           ELSE /\ \/ PyTruth(result.pdf_stores[session_id].ratios_result)
                   \/ PyTruth(result.pdf_stores[session_id].balance_sheet_data)
                /\ result' = [result EXCEPT
                       !.response = RatioResponse(session_id,
                                                  result.pdf_stores[session_id],
                                                  args.MISTRAL_API_KEY)]
    /\ fn' = "financial_ratio"
    /\ UNCHANGED <<pc, args>>

NextSessions ==
    \/ UploadPdf
    \/ CreateFakeSession
    \/ Restart
    \/ FinancialRatio

SpecSessions == InitSessions /\ [][NextSessions]_vars

(* ------------------------- claims: sessions ---------------------------- *)

(* C29: every session file written by upload_pdf is restored by
   load_persisted_sessions: once the server has been restarted after the
   upload, the session id is in pdf_stores and its store carries the
   balance_sheet_data of the session file. *)
C29_UploadedSessionsRestored ==
    \A session_id \in result.restarted :
        fn = "load_persisted_sessions"
        => /\ session_id \in DOMAIN result.pdf_stores
           /\ SameValue(result.pdf_stores[session_id].balance_sheet_data,
                        DictGet(json_load(result.session_files[session_id]),
                                "balance_sheet_data"))

(* C30: for a session whose store holds balance_sheet_data and no
   ratios_result, financial_ratio computes the ratios from the stored rows
   and answers 200, with or without a Mistral API key, and reads no local
   variable that has not been assigned. *)
C30_StoredRowsAnswered ==
    /\ fn = "financial_ratio"
    /\ result.response.session_id \in DOMAIN result.pdf_stores
    /\ PyTruth(result.pdf_stores[result.response.session_id].balance_sheet_data)
    /\ ~PyTruth(result.pdf_stores[result.response.session_id].ratios_result)
    => /\ result.response.status = 200
       /\ result.response.path = "stored_rows"
       /\ result.response.error # "UnboundLocalError"

====
